---- MODULE Spec2Model ----
(***************************************************************************)
(* State-machine model of the signed-webhook forwarding gateway:           *)
(*   - LoginHandler (token cache, login round, periodic refresher)         *)
(*   - TokenScheduler (handle of the periodic task, stop/abort)            *)
(*   - PermataCallbackStatusClient (forward attempts, 403 re-login)        *)
(*   - WebhookProcessor / WebhookServer (classification, HTTP response)    *)
(* Each action is one segment of code between two suspension points or two *)
(* mutex sections; the bank and the clock are the environment.             *)
(***************************************************************************)
EXTENDS Integers, Sequences, FiniteSets, TLC

VARIABLES now, max_retries, lk, probe, sch, alerts, cache, issued, periodic_handle, task, ref, gt,
          clearMark, shutdown_called, fw, ing

vars == <<now, max_retries, lk, probe, sch, alerts, cache, issued, periodic_handle, task, ref, gt,
          clearMark, shutdown_called, fw, ing>>

----------------------------------------------------------------------------
(* Bounds of the model *)

\* webclient.max_retries is drawn from 0..MaxRetries
MaxRetries == 2
\* the clock runs over 0..MaxSteps minutes
MaxSteps == 1
\* the token endpoint issues at most MaxTokens tokens
MaxTokens == 2
\* clients of a TokenScheduler spawn at most MaxTasks periodic tasks
MaxTasks == 3

\* callback invocations counted for the tasks of a TokenScheduler
MaxCalls == 2

\* elements of an array of a payload given to the classifier
MaxItems == 1

(* Program constants *)

\* expires_in.saturating_sub(300)
SafetyMargin == 300
\* Duration::from_secs(interval_mins * 60)
SecsPerMin == 60
\* token_scheduler.periodic_interval_mins
IntervalMins == 1
\* for retry_attempt in 0..2
MaxReloginTries == 2

Period == IntervalMins * SecsPerMin
MaxTime == MaxSteps * SecsPerMin

\* u64 values as four 16-bit limbs, least significant first
LimbBase == 2 ^ 16
U64(n) == <<n % LimbBase, n \div LimbBase, 0, 0>>
U64Max == <<LimbBase - 1, LimbBase - 1, LimbBase - 1, LimbBase - 1>>
\* i64::MAX as u64, 2^63 - 1
I64Max == <<LimbBase - 1, LimbBase - 1, LimbBase - 1, LimbBase \div 2 - 1>>

\* x * k limb by limb from limb i on, with the carry out of the top limb
RECURSIVE MulLimbs(_, _, _, _)
MulLimbs(x, k, i, carry) ==
    IF i > Len(x) THEN [limbs |-> <<>>, carry |-> carry]
    ELSE LET v == x[i] * k + carry
             rest == MulLimbs(x, k, i + 1, v \div LimbBase)
         IN [limbs |-> <<v % LimbBase>> \o rest.limbs, carry |-> rest.carry]

\* x + y limb by limb, with the carry out of the top limb
AddLimbs(x, y) ==
    LET v1 == x[1] + y[1]
        v2 == x[2] + y[2] + v1 \div LimbBase
        v3 == x[3] + y[3] + v2 \div LimbBase
        v4 == x[4] + y[4] + v3 \div LimbBase
    IN [limbs |-> <<v1 % LimbBase, v2 % LimbBase, v3 % LimbBase, v4 % LimbBase>>,
        carry |-> v4 \div LimbBase]

\* x - y limb by limb, modulo 2^64
SubLimbs(x, y) ==
    LET v1 == x[1] - y[1]
        v2 == x[2] - y[2] - (IF v1 < 0 THEN 1 ELSE 0)
        v3 == x[3] - y[3] - (IF v2 < 0 THEN 1 ELSE 0)
        v4 == x[4] - y[4] - (IF v3 < 0 THEN 1 ELSE 0)
    IN <<(v1 + LimbBase) % LimbBase, (v2 + LimbBase) % LimbBase,
         (v3 + LimbBase) % LimbBase, (v4 + LimbBase) % LimbBase>>

\* the order of x and y, read from the top limb down: -1 (x < y), 0 or 1
CmpLimbs(x, y) ==
    IF x = y THEN 0
    ELSE IF x[4] # y[4] THEN (IF x[4] > y[4] THEN 1 ELSE -1)
    ELSE IF x[3] # y[3] THEN (IF x[3] > y[3] THEN 1 ELSE -1)
    ELSE IF x[2] # y[2] THEN (IF x[2] > y[2] THEN 1 ELSE -1)
    ELSE IF x[1] > y[1] THEN 1 ELSE -1

\* readings of the monotonic clock, in whole seconds since its origin (the
\* boot of the machine), when a deadline is computed from it
ClockSecsSamples == {7, 8}

\* expires_in values the token endpoint may answer (seconds, a u64): 0, a
\* minute more than the margin, and u64::MAX
ExpiresInChoices == {U64(0), U64(SafetyMargin + SecsPerMin), U64Max}

----------------------------------------------------------------------------
(* AppError: the variant (kind), the message template it was built from    *)
(* (origin) and which of the substrings is_authentication_error looks for  *)
(* occur in its Display text (marks).                                      *)

Markers == {"Login failed", "Token", "authentication", "unauthorized",
            "Unauthorized", "401"}

NoErr == [kind |-> "None", origin |-> "none", marks |-> {}]

AppErr(kind, origin, marks) == [kind |-> kind, origin |-> origin, marks |-> marks]

is_authentication_error(e) ==
    \/ e.kind = "AuthenticationFailed"
    \/ e.kind = "Hmac"
    \/ e.marks \cap Markers # {}

\* u64::saturating_sub
SatSub(a, b) == IF CmpLimbs(a, b) >= 0 THEN SubLimbs(a, b) ELSE U64(0)

----------------------------------------------------------------------------
(* serde_json::Value and the payload classifier *)

JNull == [t |-> "null"]
JStr(s) == [t |-> "str", s |-> s]
JArr(a) == [t |-> "arr", a |-> a]
JObj(o) == [t |-> "obj", o |-> o]

\* Value::get(&str): Some(field) on an object that has the field
HasField(v, f) == v.t = "obj" /\ f \in DOMAIN v.o

RECURSIVE FlatMap(_, _, _)
RECURSIVE navigate_json_path(_, _)

FlatMap(items, path, i) ==
    IF i > Len(items) THEN <<>>
    ELSE navigate_json_path(items[i], path) \o FlatMap(items, path, i + 1)

navigate_json_path(current, path) ==
    IF path = <<>> THEN <<current>>
    ELSE IF Head(path) = "[*]"
         THEN IF current.t = "arr" THEN FlatMap(current.a, Tail(path), 1) ELSE <<>>
         ELSE IF HasField(current, Head(path))
              THEN navigate_json_path(current.o[Head(path)], Tail(path))
              ELSE <<>>

json_path_exists(json, path) == navigate_json_path(json, path) # <<>>

\* a comparison that any string at the end of the path satisfies
json_path_is_string(json, path, expected) ==
    LET r == navigate_json_path(json, path)
    IN \E i \in 1..Len(r) : r[i].t = "str"

json_path_equals(json, path, expected) ==
    LET r == navigate_json_path(json, path)
    IN \E i \in 1..Len(r) : r[i].t = "str" /\ r[i].s = expected

\* a test that takes an error of null for a missing one
is_dr_payload_unless_null(json) ==
    \/ HasField(json, "error") /\ json.o["error"] # JNull
    \/ json_path_exists(json, <<"entry", "[*]", "changes", "[*]", "value", "statuses">>)

is_dr_payload(json) ==
    \/ HasField(json, "error")
    \/ json_path_exists(json, <<"entry", "[*]", "changes", "[*]", "value", "statuses">>)

is_inbound_flow_payload(json) ==
    json_path_equals(json,
        <<"data", "entry", "[*]", "changes", "[*]", "value", "messages", "[*]",
          "interactive", "type">>, "nfm_reply")

(* Parsed payloads given to the classifier *)

\* a field that the object does not have
Absent == [t |-> "absent"]

NoFields == [f \in {} |-> JNull]

\* the object's field f with value v, if it has the field
Field(f, v) == IF v = Absent THEN NoFields ELSE f :> v

\* sequences of at most MaxItems elements of S
SeqsUpTo(S) == UNION {[1..n -> S] : n \in 0..MaxItems}

\* "value" of a change: missing, not an object, without the field, and
\* with statuses null, an array, or with messages
ValueChoices ==
    {Absent, JStr("v"), JObj(NoFields), JObj("statuses" :> JNull),
     JObj("statuses" :> JArr(<<JObj("status" :> JStr("sent"))>>)),
     JObj("messages" :> JArr(<<>>))}

\* elements of "changes"
ChangeChoices == {JObj(Field("value", v)) : v \in ValueChoices}

\* "changes" of an entry: missing, not an array, or an array
ChangesChoices ==
    {Absent, JNull, JObj("value" :> JObj("statuses" :> JNull))}
        \cup {JArr(a) : a \in SeqsUpTo(ChangeChoices)}

\* "entry": missing, not an array, or an array of one entry
EntryChoices ==
    {Absent, JStr("e"), JObj("changes" :> JArr(<<>>))}
        \cup {JArr(<<JObj(Field("changes", c))>>) : c \in ChangesChoices}
        \cup {JArr(<<JStr("e"), JObj("changes" :> JArr(<<JObj("value" :>
                  JObj("statuses" :> JNull))>>))>>)}

\* "error": missing, null, or a string
ErrorChoices == {Absent, JNull, JStr("boom")}

\* "type" of "interactive": missing, the flow reply, another string, not a
\* string
TypeChoices == {Absent, JStr("nfm_reply"), JStr("button_reply"), JNull,
                JObj("x" :> JStr("nfm_reply"))}

\* messages with one interactive part each
MessageChoices == {JObj("interactive" :> JObj(Field("type", ty))) : ty \in TypeChoices}

\* data.entry[0].changes[0].value with messages m
FlowData(m) ==
    JObj("entry" :> JArr(<<JObj("changes" :> JArr(<<JObj("value" :>
        JObj(Field("messages", m)))>>))>>))

\* "data": missing, not an object, an object with a missing step of the
\* path, or with messages
DataChoices ==
    {Absent, JStr("d"), JObj(NoFields), JObj("entry" :> JObj(NoFields)),
     FlowData(Absent), FlowData(JObj("interactive" :> JObj("type" :> JStr("nfm_reply")))),
     JObj("entry" :> JArr(<<JObj("changes" :> JObj("value" :> JObj("messages" :>
         JArr(<<JObj("interactive" :> JObj("type" :> JStr("nfm_reply")))>>))))>>))}
        \cup {FlowData(JArr(a)) : a \in SeqsUpTo(MessageChoices)}

\* the payloads: objects with error, entry and data fields, and values that
\* are not objects
PayloadSamples ==
    {JObj(Field("error", e) @@ Field("entry", en) @@ Field("data", d)) :
        e \in ErrorChoices, en \in EntryChoices, d \in DataChoices}
    \cup {JNull, JStr("error"), JArr(<<JObj("error" :> JNull)>>)}

(* Request bodies the upstream producer may send *)
FlowBody(ty) ==
    JObj("data" :> JObj("entry" :> JArr(<<JObj("changes" :> JArr(<<JObj("value" :>
        JObj("messages" :> JArr(<<JObj("interactive" :>
            JObj("type" :> JStr(ty)))>>)))>>))>>)))

BodyIds == {"P_BAD", "P_HELLO", "P_ERR", "P_XID", "P_FLOW", "P_FLOWX"}

\* bodies that serde_json::from_str rejects: "P_BAD" is `not json`, and
\* "P_BAD401" is 400 spaces followed by x, which fails at column 401
NonJsonBodies == {"P_BAD", "P_BAD401"}

\* serde_json::from_str succeeds
BodyIsJson(b) == b \notin NonJsonBodies

BodyJson(b) ==
    CASE b = "P_HELLO" -> JObj("hello" :> JStr("world"))
      [] b = "P_ERR"   -> JObj("error" :> JNull)
      [] b = "P_XID"   -> JObj(("error" :> JNull) @@ ("xid" :> JStr("x1")) @@
                               ("id" :> JStr("i1")))
      [] b = "P_FLOW"  -> FlowBody("nfm_reply")
      [] b = "P_FLOWX" -> FlowBody("button_reply")
      [] b = "P_BOTH"  -> JObj(("error" :> JNull) @@ FlowBody("nfm_reply").o)
      [] OTHER         -> JNull

\* should_process_payload that forwards a payload of one kind only
ShouldProcessOneKind(b) ==
    /\ BodyIsJson(b)
    /\ is_dr_payload(BodyJson(b)) # is_inbound_flow_payload(BodyJson(b))

\* should_process_payload that forwards whatever parses
ShouldProcessAnyJson(b) == BodyIsJson(b)

should_process_payload(b) ==
    /\ BodyIsJson(b)
    /\ \/ is_dr_payload(BodyJson(b))
       \/ is_inbound_flow_payload(BodyJson(b))

\* the result of the classifier on a parsed payload
NoProbe == [pc |-> "idle", json |-> JNull, dr |-> FALSE, flow |-> FALSE]

\* should_process_payload, Ok(json) arm: both predicates on json
Classify(json) ==
    /\ probe.pc = "idle"
    /\ probe' = [pc |-> "done", json |-> json, dr |-> is_dr_payload(json),
                 flow |-> is_inbound_flow_payload(json)]
    /\ UNCHANGED <<now, max_retries, lk, sch, alerts, cache, issued, periodic_handle, task,
                   ref, gt, clearMark, shutdown_called, fw, ing>>

\* should_process_payload returns
ClassifyReturn ==
    /\ probe.pc = "done"
    /\ probe' = NoProbe
    /\ UNCHANGED <<now, max_retries, lk, sch, alerts, cache, issued, periodic_handle, task,
                   ref, gt, clearMark, shutdown_called, fw, ing>>

----------------------------------------------------------------------------
(* Request ids *)

\* "req-" followed by v; fresh tells a Uuid::new_v4() from a value of the body
NoRequestId == [prefix |-> "", v |-> "none", fresh |-> FALSE]
ReqId(v) == [prefix |-> "req-", v |-> v, fresh |-> FALSE]
FreshReqId == [prefix |-> "req-", v |-> "uuid", fresh |-> TRUE]

\* json.get(f).and_then(|v| v.as_str()), with "" for None
StrField(json, f) ==
    IF HasField(json, f) /\ json.o[f].t = "str" THEN json.o[f].s ELSE ""

\* utils::request_id::extract_request_id on a body that parses (ok) to json
extract_request_id(ok, json) ==
    IF ~ok THEN FreshReqId
    ELSE IF StrField(json, "xid") # "" THEN ReqId(StrField(json, "xid"))
    ELSE IF StrField(json, "id") # "" THEN ReqId(StrField(json, "id"))
    ELSE FreshReqId

\* handle_webhook: let request_id = format!("req-{}", Uuid::new_v4())
IngressRequestId(b) == FreshReqId

----------------------------------------------------------------------------
(* TelegramAlertService::send_error_alert *)

\* the call sites: should_process_payload on a body that is not JSON, and
\* make_login_request_with_context on an error status
AlertKinds == {"json_parse", "login_status"}

\* what became of the alert POST of the latest task spawned for a call site:
\* "ok" (2xx), "non2xx", "failed" (transport error); "pending" until then,
\* and for ever if the POST never completes
AlertOutcomes == {"ok", "non2xx", "failed"}

NoAlerts == [k \in AlertKinds |-> "none"]

\* a send_error_alert that returns when its POST has been answered
AlertsAfterAwaitedSend(al, k) == [al EXCEPT ![k] = "ok"]

\* send_error_alert: tokio::spawn of the task that POSTs, and return
AlertsAfterSend(al, k) == [al EXCEPT ![k] = "pending"]

\* the spawned task: the POST is answered or fails, which is logged
AlertAnswer(k, o) ==
    /\ alerts[k] = "pending"
    /\ alerts' = [alerts EXCEPT ![k] = o]
    /\ UNCHANGED <<now, max_retries, lk, probe, sch, cache, issued, periodic_handle, task, ref,
                   gt, clearMark, shutdown_called, fw, ing>>

----------------------------------------------------------------------------
(* LoginHandler: token cache and get_token_with_context *)

\* callers of get_token_with_context: request-path tasks, the forwarder of
\* the request being handled, and the periodic task
Reqs == {"req1", "req2"}
Callers == Reqs \cup {"fwd", "sched"}

\* HashMap without the key "permata_bank_token"
NoEntry == [token |-> 0, expires_at |-> U64(0)]

NoResp == [token |-> 0, expires_in |-> U64(0)]

\* Result<String> of get_token_with_context; src tells a cached token
\* ("cache") from one the call fetched ("login")
NoRes == [ok |-> FALSE, token |-> 0, src |-> "none", err |-> NoErr]

OkRes(token, src) == [ok |-> TRUE, token |-> token, src |-> src, err |-> NoErr]

ErrRes(e) == [NoRes EXCEPT !.err = e]

\* one get_token_with_context call; n_req (login requests sent), n_sleep
\* (sleeps begun), last_out (the error of the latest request) and round (a
\* login round was run) record what the call did
GtIdle == [pc |-> "idle", attempt |-> 0, last_error |-> NoErr, resp |-> NoResp,
           res |-> NoRes, n_req |-> 0, n_sleep |-> 0, last_out |-> NoErr,
           round |-> FALSE]

\* the cache test with >= in place of >
CacheHitInclusive(entry, t) ==
    entry.token # 0 /\ CmpLimbs(entry.expires_at, U64(t)) >= 0

\* if let Some(cached_token) = cache.get(..) { if cached_token.expires_at > Instant::now()
CacheHit(entry, t) ==
    entry.token # 0 /\ CmpLimbs(entry.expires_at, U64(t)) = 1

\* Instant::now() + Duration::from_secs(expires_in.saturating_sub(300)) at
\* time t, the monotonic clock reading clock_secs: the sum panics ("overflow
\* when adding duration to instant") when it does not fit the clock's
\* signed 64-bit seconds; at is the deadline on the time scale of t
ExpiresAt(t, expires_in, clock_secs) ==
    LET d == SatSub(expires_in, U64(SafetyMargin))
        abs == AddLimbs(d, U64(clock_secs))
    IN [panic |-> abs.carry # 0 \/ CmpLimbs(abs.limbs, I64Max) = 1,
        at |-> AddLimbs(d, U64(t)).limbs]

\* a clear that leaves the entry in place
CacheKept(entry) == entry

\* cache.clear()
CacheAfterClear(entry) == NoEntry

\* an insert that keeps the entry the cache already holds
CacheInsertIfAbsent(entry, token, exp) ==
    IF entry = NoEntry THEN [token |-> token, expires_at |-> exp] ELSE entry

\* cache.insert(cache_key, cached_token): the entry under the key is replaced
CacheAfterInsert(entry, token, exp) == [token |-> token, expires_at |-> exp]

\* a get_token that empties the cache when its login round fails
CacheEmptiedOnLoginErr(entry) == NoEntry

\* let token_response = self.login_with_context(..).await?: an error returns
\* before the cache lock is taken again, the cache is left as it is
CacheAfterLoginErr(entry) == entry

\* the substrings of Markers in the Display text of a status and in a body
StatusMarks(status) == IF status = 401 THEN {"401", "Unauthorized"} ELSE {}
BodyMarks(b) == IF b = "B_UNAUTH" THEN {"Unauthorized"} ELSE {}

\* the ways a login request fails: in transport ("send"), or with the
\* non-2xx answer (status, body) of the token endpoint
LoginFailures ==
    {[kind |-> "send", status |-> 0, body |-> "none"],
     [kind |-> "status", status |-> 401, body |-> "B_UNAUTH"]}

\* the errors make_login_request_with_context returns: the reqwest error of
\* send, or AuthenticationFailed with the message
\* "Login failed: {status} - {body}"
LoginErr(f) ==
    IF f.kind = "status"
    THEN AppErr("AuthenticationFailed", "login_status",
                {"Login failed"} \cup StatusMarks(f.status) \cup BodyMarks(f.body))
    ELSE AppErr("HttpRequest", "login_send", {})

\* alerts make_login_request_with_context sends on failure f: one on an
\* error status, none on a transport error
LoginAlerts(f) == IF f.kind = "status" THEN 1 ELSE 0

\* a login round that gives up after an authentication failure
LoginRetriesUnlessAuth(e, attempt, max) == attempt < max /\ ~is_authentication_error(e)


\* login_with_context: if attempt < webclient_config.max_retries { sleep }
LoginRetries(e, attempt, max) == attempt < max

\* last_error = Some(e)
LastError(prev, e) == e

\* the periodic task: "alive", "aborted" (JoinHandle::abort) or "panicked"
Alive(c) == c # "sched" \/ task = "alive"

\* clearMark follows clear_cache: "cleared" from its return until a token is
\* stored ("stored", by the caller that stored it) or the next get_token call
\* reads the cache; "relogin" once that call (by), having found no token,
\* runs its login round
NoMark == [st |-> "none", by |-> "none"]
Cleared == [st |-> "cleared", by |-> "none"]

ClearMarkAfterCheck(m, hit, c) ==
    IF m.st = "cleared" /\ ~hit THEN [st |-> "relogin", by |-> c] ELSE NoMark

ClearMarkAfterStore(m, c) ==
    IF m.st = "cleared" THEN [st |-> "stored", by |-> c] ELSE m

\* a request-path caller enters get_token_with_context
GtCall(c) ==
    /\ c \in Reqs
    /\ gt[c].pc = "idle"
    /\ gt' = [gt EXCEPT ![c] = [GtIdle EXCEPT !.pc = "check"]]
    /\ UNCHANGED <<now, max_retries, lk, probe, sch, alerts, cache, issued, periodic_handle, task, ref,
                   clearMark, shutdown_called, fw, ing>>

\* the locked cache lookup; on a miss login_with_context sends its first request
GtCheck(c) ==
    /\ gt[c].pc = "check"
    /\ gt' = [gt EXCEPT ![c] =
                IF CacheHit(cache, now)
                THEN [@ EXCEPT !.pc = "ret", !.res = OkRes(cache.token, "cache")]
                ELSE IF max_retries = 0
                THEN [@ EXCEPT !.pc = "panicked", !.round = TRUE]
                ELSE [@ EXCEPT !.pc = "login_wait", !.round = TRUE, !.attempt = 1,
                               !.n_req = 1]]
    /\ clearMark' = ClearMarkAfterCheck(clearMark, CacheHit(cache, now), c)
    /\ UNCHANGED <<now, max_retries, lk, probe, sch, alerts, cache, issued, periodic_handle, task, ref,
                   shutdown_called, fw, ing>>

\* the token endpoint answers 2xx with a TokenResponse
BankLoginOk(c, e) ==
    /\ gt[c].pc = "login_wait"
    /\ Alive(c)
    /\ issued < MaxTokens
    /\ issued' = issued + 1
    /\ gt' = [gt EXCEPT ![c] = [@ EXCEPT !.pc = "store", !.last_out = NoErr,
                                        !.resp = [token |-> issued + 1, expires_in |-> e]]]
    /\ UNCHANGED <<now, max_retries, lk, probe, sch, alerts, cache, periodic_handle, task, ref,
                   clearMark, shutdown_called, fw, ing>>

\* the login request fails: with an error status, which sends an alert and
\* yields AuthenticationFailed, or in transport
BankLoginFail(c, f) ==
    /\ gt[c].pc = "login_wait"
    /\ Alive(c)
    /\ LET e == LoginErr(f)
           le == LastError(gt[c].last_error, e)
       IN gt' = [gt EXCEPT ![c] =
                   IF LoginRetries(e, gt[c].attempt, max_retries)
                   THEN [@ EXCEPT !.pc = "sleep", !.last_error = le, !.last_out = e,
                                  !.n_sleep = @ + 1]
                   ELSE [@ EXCEPT !.pc = "ret", !.last_error = le, !.last_out = e,
                                  !.res = ErrRes(le)]]
    /\ alerts' = IF LoginAlerts(f) = 1 THEN AlertsAfterSend(alerts, "login_status")
                 ELSE alerts
    /\ cache' = CacheAfterLoginErr(cache)
    /\ UNCHANGED <<now, max_retries, lk, probe, sch, issued, periodic_handle, task, ref,
                   clearMark, shutdown_called, fw, ing>>

\* sleep(retry_delay) is over: the next login request is sent
GtSleepDone(c) ==
    /\ gt[c].pc = "sleep"
    /\ Alive(c)
    /\ gt' = [gt EXCEPT ![c] = [@ EXCEPT !.pc = "login_wait", !.attempt = @ + 1,
                                        !.n_req = @ + 1]]
    /\ UNCHANGED <<now, max_retries, lk, probe, sch, alerts, cache, issued, periodic_handle, task, ref,
                   clearMark, shutdown_called, fw, ing>>

\* let expires_at = Instant::now() + ..: a sum that overflows panics, the
\* call does not return and nothing is stored; else
\* cache.insert(cache_key, cached_token); Ok(access_token). Either way
\* token_response is dropped
GtStore(c) ==
    /\ gt[c].pc = "store"
    /\ \E clock_secs \in ClockSecsSamples :
         LET exp == ExpiresAt(now, gt[c].resp.expires_in, clock_secs)
         IN IF exp.panic
            THEN /\ gt' = [gt EXCEPT ![c] = [@ EXCEPT !.pc = "panicked",
                                                      !.resp = NoResp]]
                 /\ UNCHANGED <<cache, clearMark>>
            ELSE /\ cache' = CacheAfterInsert(cache, gt[c].resp.token, exp.at)
                 /\ gt' = [gt EXCEPT ![c] = [@ EXCEPT !.pc = "ret",
                               !.resp = NoResp,
                               !.res = OkRes(gt[c].resp.token, "login")]]
                 /\ clearMark' = ClearMarkAfterStore(clearMark, c)
    /\ UNCHANGED <<now, max_retries, lk, probe, sch, alerts, issued, periodic_handle, task, ref,
                   shutdown_called, fw, ing>>

\* the request-path caller has its result (or its task panicked)
GtReturn(c) ==
    /\ c \in Reqs
    /\ gt[c].pc \in {"ret", "panicked"}
    /\ gt' = [gt EXCEPT ![c] = GtIdle]
    /\ UNCHANGED <<now, max_retries, lk, probe, sch, alerts, cache, issued, periodic_handle, task, ref,
                   clearMark, shutdown_called, fw, ing>>

----------------------------------------------------------------------------
(* TokenScheduler and the periodic refresher *)

\* MissedTickBehavior::Burst: the next tick is due one period after the tick
\* that was due, late or not
NextTickBurst(due, t) == due + Period

\* MissedTickBehavior::Skip: the next tick is the first multiple of the period,
\* counted from the tick that was due, that lies after now
NextTick(due, t) == due + ((t - due) \div Period + 1) * Period

\* a stop_scheduler that aborts the task and leaves its handle in place
HandleLeftInPlace == "Some"

\* stop_scheduler: handle_guard.take() and handle.abort()
HandleAfterStop == "None"
TaskAfterStop(h, t) == IF h = "Some" /\ t = "alive" THEN "aborted" ELSE t

\* clear_cache_with_context ends with self.token_scheduler.stop_scheduler()
HandleAfterClearCache(h) == HandleAfterStop
TaskAfterClearCache(h, t) == TaskAfterStop(h, t)

is_scheduler_active == periodic_handle = "Some"

\* timer.tick().await returns
RefTick ==
    /\ task = "alive"
    /\ ref.pc = "tick_wait"
    /\ now >= ref.next_tick
    /\ ref' = [pc |-> "clear", next_tick |-> NextTick(ref.next_tick, now)]
    /\ UNCHANGED <<now, max_retries, lk, probe, sch, alerts, cache, issued, periodic_handle, task, gt,
                   clearMark, shutdown_called, fw, ing>>

\* the callback: cache_guard.clear(), then get_token_with_context(None, "scheduler")
RefClear ==
    /\ ref.pc = "clear"
    /\ cache' = NoEntry
    /\ ref' = [ref EXCEPT !.pc = "token"]
    /\ gt' = [gt EXCEPT !["sched"] = [GtIdle EXCEPT !.pc = "check"]]
    /\ UNCHANGED <<now, max_retries, lk, probe, sch, alerts, issued, periodic_handle, task, clearMark,
                   shutdown_called, fw, ing>>

\* a loop that a callback error ends
CallbackEndsTaskOnError(g) == g.pc = "panicked" \/ ~g.res.ok

\* match callback().await { Ok(_) => log, Err(e) => log }: the loop goes on
\* after both; only a panic of the callback ends the task
CallbackEndsTask(g) == g.pc = "panicked"

\* the callback returned Ok or Err (both are only logged), or it panicked
RefCallbackDone ==
    /\ ref.pc = "token"
    /\ gt["sched"].pc \in {"ret", "panicked"}
    /\ IF CallbackEndsTask(gt["sched"])
       THEN /\ ref' = [ref EXCEPT !.pc = "dead"]
            /\ task' = "panicked"
       ELSE /\ ref' = [ref EXCEPT !.pc = "tick_wait"]
            /\ task' = task
    /\ gt' = [gt EXCEPT !["sched"] = GtIdle]
    /\ UNCHANGED <<now, max_retries, lk, probe, sch, alerts, cache, issued, periodic_handle, clearMark,
                   shutdown_called, fw, ing>>

\* LoginHandler::clear_cache
ClearCache ==
    /\ cache' = CacheAfterClear(cache)
    /\ clearMark' = Cleared
    /\ periodic_handle' = HandleAfterClearCache(periodic_handle)
    /\ task' = TaskAfterClearCache(periodic_handle, task)
    /\ UNCHANGED <<now, max_retries, lk, probe, sch, alerts, issued, ref, gt, shutdown_called, fw, ing>>

\* LoginHandler::stop_scheduler
StopScheduler ==
    /\ periodic_handle' = HandleAfterStop
    /\ task' = TaskAfterStop(periodic_handle, task)
    /\ UNCHANGED <<now, max_retries, lk, probe, sch, alerts, cache, issued, ref, gt, clearMark,
                   shutdown_called, fw, ing>>

\* LoginHandler::shutdown
Shutdown ==
    /\ periodic_handle' = HandleAfterStop
    /\ task' = TaskAfterStop(periodic_handle, task)
    /\ shutdown_called' = TRUE
    /\ UNCHANGED <<now, max_retries, lk, probe, sch, alerts, cache, issued, ref, gt, clearMark, fw, ing>>

\* the monotonic clock
Advance ==
    /\ now < MaxTime
    /\ now' = now + SecsPerMin
    /\ UNCHANGED <<max_retries, lk, probe, sch, alerts, cache, issued, periodic_handle, task, ref, gt,
                   clearMark, shutdown_called, fw, ing>>

----------------------------------------------------------------------------
(* The two mutexes: token_cache of the LoginHandler and periodic_handle of  *)
(* the TokenScheduler, with the threads and tasks that lock them. Each      *)
(* action is one step of a function between taking a lock, releasing it     *)
(* and a suspension point; a thread that wants a held mutex is blocked.     *)

Mutexes == {"cache", "handle"}

\* the periodic task started by LoginHandler::new and the one a further
\* start_scheduler call spawns
LockTasks == {"task1", "task2"}

\* a request-path caller of get_token, a caller of clear_cache, and a caller
\* of start_scheduler, stop_scheduler, shutdown and is_scheduler_active
LockThreads == {"req", "cc", "ctl"} \cup LockTasks

\* the operations of the scheduler's caller
CtlOps == {"start", "stop", "shutdown", "is_active"}

\* after LoginHandler::new: no mutex is held, the first periodic task waits
\* for its first tick and its handle is stored
LkIdle == [holder |-> [m \in Mutexes |-> "none"],
           pc |-> [t \in LockThreads |->
                     IF t = "task1" THEN "tick" ELSE IF t = "task2" THEN "unborn" ELSE "idle"],
           op |-> "none", handle |-> "task1", aborted |-> {}]

\* outside comparisons: every variable but lk
NotLk == <<now, max_retries, probe, sch, alerts, cache, issued, periodic_handle, task, ref, gt,
           clearMark, shutdown_called, fw, ing>>

\* a lookup whose guard lives until the function returns
HeldAcrossLogin(t) == t

\* the lookup block of get_token_with_context ends before login_with_context
\* is awaited: its guard is dropped
HeldAfterLookup(t) == "none"

\* a stop_scheduler that locks the token cache
StopLocksCache == "cache"

\* stop_scheduler locks self.periodic_handle
MutexOfStop == "handle"

\* the mutex a thread at pc waits for ("none": it does not wait)
WantedAt(pc) ==
    CASE pc \in {"gt_want", "ins_want", "cb_want", "cc_want"} -> "cache"
      [] pc = "stop_want" -> MutexOfStop
      [] pc \in {"act_want", "store_want"} -> "handle"
      [] OTHER -> "none"

\* the suspension points (.await) and the states outside any call
AwaitPcs == {"tick", "gt_login"}
RestPcs == {"idle", "unborn", "dead"}

\* where get_token_with_context returns to
LkDone(t) == IF t \in LockTasks THEN "tick" ELSE "idle"

\* Mutex::lock: the thread at the pc from takes m when it is free
LkLock(t, from, m, to) ==
    /\ lk.pc[t] = from
    /\ lk.holder[m] = "none"
    /\ lk' = [lk EXCEPT !.holder[m] = t, !.pc[t] = to]
    /\ UNCHANGED NotLk

\* the request-path caller enters get_token_with_context
LkGtCall ==
    /\ lk.pc["req"] = "idle"
    /\ lk' = [lk EXCEPT !.pc["req"] = "gt_want"]
    /\ UNCHANGED NotLk

\* get_token_with_context: self.token_cache.lock() of the lookup
LkGtLock(t) == LkLock(t, "gt_want", "cache", "gt_lookup")

\* the lookup: a cached token is cloned and returned, or the block ends and
\* login_with_context is awaited
LkGtLookup(t, hit) ==
    /\ lk.pc[t] = "gt_lookup"
    /\ lk' = [lk EXCEPT !.holder["cache"] = IF hit THEN "none" ELSE HeldAfterLookup(t),
                        !.pc[t] = IF hit THEN LkDone(t) ELSE "gt_login"]
    /\ UNCHANGED NotLk

\* login_with_context returns (requests and retry sleeps are over): its
\* error is returned ("err"), the deadline of its token is computed ("ok"),
\* or that sum panics and ends the task ("panic"); no mutex is held
LkGtLoginDone(t, out) ==
    /\ lk.pc[t] = "gt_login"
    /\ t \notin lk.aborted
    /\ lk' = [lk EXCEPT !.pc[t] = CASE out = "ok" -> "ins_want"
                                    [] out = "err" -> LkDone(t)
                                    [] out = "panic" ->
                                         IF t \in LockTasks THEN "dead" ELSE "idle"]
    /\ UNCHANGED NotLk

\* self.token_cache.lock() of the insert
LkGtLockInsert(t) == LkLock(t, "ins_want", "cache", "gt_insert")

\* cache.insert(..); the guard is dropped at the end of the block
LkGtInsert(t) ==
    /\ lk.pc[t] = "gt_insert"
    /\ lk' = [lk EXCEPT !.holder["cache"] = "none", !.pc[t] = LkDone(t)]
    /\ UNCHANGED NotLk

\* timer.tick().await returns in a periodic task
LkTick(t) ==
    /\ t \in LockTasks
    /\ lk.pc[t] = "tick"
    /\ t \notin lk.aborted
    /\ lk' = [lk EXCEPT !.pc[t] = "cb_want"]
    /\ UNCHANGED NotLk

\* the callback: cache_clone.lock()
LkCbLock(t) == t \in LockTasks /\ LkLock(t, "cb_want", "cache", "cb_clear")

\* cache_guard.clear(); the guard is dropped and get_token_with_context called
LkCbClear(t) ==
    /\ lk.pc[t] = "cb_clear"
    /\ lk' = [lk EXCEPT !.holder["cache"] = "none", !.pc[t] = "gt_want"]
    /\ UNCHANGED NotLk

\* an aborted task is dropped at its suspension point
LkCancel(t) ==
    /\ t \in lk.aborted
    /\ lk.pc[t] \in AwaitPcs
    /\ lk' = [lk EXCEPT !.pc[t] = "dead"]
    /\ UNCHANGED NotLk

\* clear_cache_with_context is called
LkCcCall ==
    /\ lk.pc["cc"] = "idle"
    /\ lk' = [lk EXCEPT !.pc["cc"] = "cc_want"]
    /\ UNCHANGED NotLk

\* let mut cache = self.token_cache.lock()
LkCcLock == LkLock("cc", "cc_want", "cache", "cc_clear")

\* cache.clear(); then self.token_scheduler.stop_scheduler() with the guard
\* of the cache still alive
LkCcClear ==
    /\ lk.pc["cc"] = "cc_clear"
    /\ lk' = [lk EXCEPT !.pc["cc"] = "stop_want"]
    /\ UNCHANGED NotLk

\* stop_scheduler: self.periodic_handle.lock()
LkStopLock(t) == t \in {"cc", "ctl"} /\ LkLock(t, "stop_want", MutexOfStop, "stop_take")

\* handle_guard.take() and handle.abort(): the runtime sees the abort while
\* the guard is still held
LkStopTake(t) ==
    /\ lk.pc[t] = "stop_take"
    /\ lk' = [lk EXCEPT !.handle = "none",
                        !.aborted = @ \cup ({lk.handle} \ {"none"}),
                        !.pc[t] = "stop_ret"]
    /\ UNCHANGED NotLk

\* stop_scheduler returns: handle_guard is dropped
LkStopReturn(t) ==
    /\ lk.pc[t] = "stop_ret"
    /\ lk' = [lk EXCEPT !.holder[MutexOfStop] = "none",
                        !.pc[t] = IF t = "cc" THEN "cc_ret"
                                  ELSE IF lk.op = "start" THEN "spawn" ELSE "idle"]
    /\ UNCHANGED NotLk

\* clear_cache_with_context returns: the guard of the cache is dropped
LkCcReturn ==
    /\ lk.pc["cc"] = "cc_ret"
    /\ lk' = [lk EXCEPT !.holder["cache"] = "none", !.pc["cc"] = "idle"]
    /\ UNCHANGED NotLk

\* start_scheduler (once more, on the scheduler itself), stop_scheduler,
\* shutdown or is_scheduler_active is called
LkCtlCall(op) ==
    /\ lk.pc["ctl"] = "idle"
    /\ op = "start" => lk.pc["task2"] = "unborn"
    /\ lk' = [lk EXCEPT !.op = op,
                        !.pc["ctl"] = IF op = "is_active" THEN "act_want" ELSE "stop_want"]
    /\ UNCHANGED NotLk

\* is_scheduler_active: self.periodic_handle.lock()
LkActiveLock == LkLock("ctl", "act_want", "handle", "act_read")

\* handle_guard.is_some(); the guard is dropped on return
LkActiveRead ==
    /\ lk.pc["ctl"] = "act_read"
    /\ lk' = [lk EXCEPT !.holder["handle"] = "none", !.pc["ctl"] = "idle"]
    /\ UNCHANGED NotLk

\* start_scheduler: spawn_periodic_task
LkSpawn ==
    /\ lk.pc["ctl"] = "spawn"
    /\ lk' = [lk EXCEPT !.pc["ctl"] = "store_want", !.pc["task2"] = "tick"]
    /\ UNCHANGED NotLk

\* start_scheduler: self.periodic_handle.lock() of the store
LkStoreLock == LkLock("ctl", "store_want", "handle", "store_put")

\* *handle_guard = Some(handle); the guard is dropped at the end of the block
LkStorePut ==
    /\ lk.pc["ctl"] = "store_put"
    /\ lk' = [lk EXCEPT !.holder["handle"] = "none", !.handle = "task2",
                        !.pc["ctl"] = "idle"]
    /\ UNCHANGED NotLk

----------------------------------------------------------------------------
(* A TokenScheduler driven by its own clients: start_scheduler and          *)
(* stop_scheduler called on the scheduler and its clones from several       *)
(* threads. LoginHandler calls start_scheduler once, in new, so its own     *)
(* scheduler (periodic_handle, task) has the one task only.                 *)

\* the scheduler and a clone of it, each used by a thread of its own: the
\* handle is shared through the Arc, the config is a value of each clone
SchedClients == {"t1", "t2"}

\* task ids; 0 stands for no task
TaskIds == 1..MaxTasks

\* overflow checks on (debug profile) or off (release profile)
Builds == {"debug", "release"}

\* interval_mins * 60 in u64: on overflow the task panics with overflow
\* checks on, and the product wraps modulo 2^64 with them off
PeriodSecs(interval_mins, build) ==
    LET p == MulLimbs(interval_mins, SecsPerMin, 1, 0)
    IN [panic |-> p.carry # 0 /\ build = "debug", secs |-> p.limbs]

\* tokio::time::interval(period) panics when period is zero
IntervalPanics(period) == period.panic \/ period.secs = U64(0)

\* a tick polled more than 5 ms after its deadline is rescheduled from
\* now + period (MissedTickBehavior::Skip), which panics when the sum does
\* not fit the clock's signed 64-bit seconds: clock_secs + period >= 2^63
TickPanics(late, period, clock_secs) ==
    LET sum == AddLimbs(period.secs, U64(clock_secs))
    IN late /\ (sum.carry # 0 \/ sum.limbs[4] >= LimbBase \div 2)

\* configured periodic_interval_mins: 0, the default, u64::MAX, 2^62 (whose
\* product with 60 is a multiple of 2^64), the largest value whose product
\* fits, and the value whose product is 2^63 - 8
IntervalSamples ==
    {U64(0), U64(IntervalMins), U64Max, <<0, 0, 0, 16384>>,
     <<17476, 17476, 17476, 1092>>, <<8738, 8738, 8738, 546>>}

\* TokenScheduler::new: periodic_handle is None, no task is spawned; last
\* is the call that returned last, dropped tells that the scheduler and its
\* clones are dropped, calls counts the callback invocations of its tasks
SchIdle == [handle |-> 0, alive |-> {}, spawned |-> 0,
            op |-> [c \in SchedClients |-> [pc |-> "idle", h |-> 0]],
            last |-> "none", dropped |-> FALSE, calls |-> 0,
            interval_mins |-> [c \in SchedClients |-> U64(IntervalMins)],
            build |-> "release",
            captured |-> [h \in TaskIds |-> <<>>],
            begun |-> {}, ticked |-> {}, panicked |-> {}]

\* a stop_scheduler that aborts the task and keeps its handle
SchAbortedOnly(s) == [s EXCEPT !.alive = @ \ {s.handle}]

\* stop_scheduler: under the mutex, handle_guard.take() and handle.abort();
\* the aborted task is not polled again and its interval is forgotten
SchStopped(s) ==
    [s EXCEPT !.handle = 0, !.alive = @ \ {s.handle},
              !.captured = [h \in TaskIds |-> IF h = s.handle THEN <<>> ELSE @[h]]]

\* is_scheduler_active: handle_guard.is_some()
SchActive(s) == s.handle # 0

\* get_scheduler_info: Some(text with the interval) if is_scheduler_active()
NoSchedulerInfo == [some |-> FALSE, interval_mins |-> <<>>]
get_scheduler_info(s, c) ==
    IF SchActive(s) THEN [some |-> TRUE, interval_mins |-> s.interval_mins[c]]
    ELSE NoSchedulerInfo

\* *handle_guard = Some(handle): the handle held before is dropped, which
\* detaches its task and does not abort it
SchStored(s, h) == [s EXCEPT !.handle = h]

\* stop_scheduler called by a client
SchStop(c) ==
    /\ ~sch.dropped
    /\ sch.op[c].pc = "idle"
    /\ sch' = [SchStopped(sch) EXCEPT !.last = "stop"]
    /\ UNCHANGED <<now, max_retries, lk, probe, alerts, cache, issued, periodic_handle, task, ref, gt,
                   clearMark, shutdown_called, fw, ing>>

\* start_scheduler, first part: self.stop_scheduler()
SchStartStop(c) ==
    /\ ~sch.dropped
    /\ sch.op[c].pc = "idle"
    /\ sch' = [SchStopped(sch) EXCEPT !.op[c].pc = "spawn"]
    /\ UNCHANGED <<now, max_retries, lk, probe, alerts, cache, issued, periodic_handle, task, ref, gt,
                   clearMark, shutdown_called, fw, ing>>

\* start_scheduler, second part: the interval configured in the clone it is
\* called on is read and spawn_periodic_task returns the JoinHandle of a new
\* task, which keeps that interval
SchStartSpawn(c) ==
    /\ sch.op[c].pc = "spawn"
    /\ sch.spawned < MaxTasks
    /\ sch' = [sch EXCEPT !.spawned = @ + 1, !.alive = @ \cup {sch.spawned + 1},
                          !.captured[sch.spawned + 1] = sch.interval_mins[c],
                          !.op[c] = [pc |-> "store", h |-> sch.spawned + 1]]
    /\ UNCHANGED <<now, max_retries, lk, probe, alerts, cache, issued, periodic_handle, task, ref, gt,
                   clearMark, shutdown_called, fw, ing>>

\* start_scheduler, third part: under the mutex, the new handle is stored
SchStartStore(c) ==
    /\ sch.op[c].pc = "store"
    /\ sch' = [SchStored(sch, sch.op[c].h) EXCEPT !.op[c] = [pc |-> "idle", h |-> 0],
                                                  !.last = "start"]
    /\ UNCHANGED <<now, max_retries, lk, probe, alerts, cache, issued, periodic_handle, task, ref, gt,
                   clearMark, shutdown_called, fw, ing>>

\* shutdown called by a client: self.stop_scheduler()
SchShutdown(c) ==
    /\ ~sch.dropped
    /\ sch.op[c].pc = "idle"
    /\ sch' = [SchStopped(sch) EXCEPT !.last = "shutdown"]
    /\ UNCHANGED <<now, max_retries, lk, probe, alerts, cache, issued, periodic_handle, task, ref, gt,
                   clearMark, shutdown_called, fw, ing>>

\* the scheduler and its clones are dropped while no call runs on them:
\* Drop::drop does nothing, and the JoinHandle dropped with the last clone
\* detaches its task
SchDrop ==
    /\ ~sch.dropped
    /\ \A c \in SchedClients : sch.op[c].pc = "idle"
    /\ sch' = [sch EXCEPT !.dropped = TRUE]
    /\ UNCHANGED <<now, max_retries, lk, probe, alerts, cache, issued, periodic_handle, task, ref, gt,
                   clearMark, shutdown_called, fw, ing>>

\* update_config(&mut self, config) on one clone, on which no other call
\* runs: the config of that clone changes, the other clone and the tasks
\* already spawned keep theirs
SchUpdateConfig(c, i) ==
    /\ ~sch.dropped
    /\ sch.op[c].pc = "idle"
    /\ sch.interval_mins[c] # i
    /\ sch' = [sch EXCEPT !.interval_mins[c] = i]
    /\ UNCHANGED <<now, max_retries, lk, probe, alerts, cache, issued, periodic_handle, task, ref, gt,
                   clearMark, shutdown_called, fw, ing>>

\* clone(): clone b is replaced by a new clone of a, with a's config and
\* the shared handle
SchClone(a, b) ==
    /\ ~sch.dropped
    /\ a # b
    /\ sch.op[a].pc = "idle" /\ sch.op[b].pc = "idle"
    /\ sch.interval_mins[b] # sch.interval_mins[a]
    /\ sch' = [sch EXCEPT !.interval_mins[b] = sch.interval_mins[a]]
    /\ UNCHANGED <<now, max_retries, lk, probe, alerts, cache, issued, periodic_handle, task, ref, gt,
                   clearMark, shutdown_called, fw, ing>>

\* the spawned task is polled for the first time (a task aborted before is
\* never polled): it creates its interval timer, or panics, and waits for
\* the first tick
SchTaskBegin(h) ==
    /\ h \in sch.alive
    /\ h \notin sch.begun
    /\ sch' = IF IntervalPanics(PeriodSecs(sch.captured[h], sch.build))
              THEN [sch EXCEPT !.alive = @ \ {h}, !.panicked = @ \cup {h},
                                 !.captured[h] = <<>>]
              ELSE [sch EXCEPT !.begun = @ \cup {h}]
    /\ UNCHANGED <<now, max_retries, lk, probe, alerts, cache, issued, periodic_handle, task, ref, gt,
                   clearMark, shutdown_called, fw, ing>>

\* timer.tick().await is polled with the deadline reached, in time or late
\* at some reading of the clock, in a task that was not aborted while it
\* waited: it returns or panics
SchTaskTick(h) ==
    /\ h \in sch.alive
    /\ h \in sch.begun
    /\ h \notin sch.ticked
    /\ sch.calls < MaxCalls
    /\ \E late \in BOOLEAN, clock_secs \in ClockSecsSamples :
          sch' = IF TickPanics(late, PeriodSecs(sch.captured[h], sch.build), clock_secs)
                 THEN [sch EXCEPT !.alive = @ \ {h}, !.panicked = @ \cup {h},
                                 !.captured[h] = <<>>]
                 ELSE [sch EXCEPT !.ticked = @ \cup {h}]
    /\ UNCHANGED <<now, max_retries, lk, probe, alerts, cache, issued, periodic_handle, task, ref, gt,
                   clearMark, shutdown_called, fw, ing>>

\* callback().await in a task that is past its tick: an abort that came
\* since takes effect at the next suspension point only, so the callback is
\* invoked all the same
SchTaskCallback(h) ==
    /\ h \in sch.ticked
    /\ sch.calls < MaxCalls
    /\ sch' = [sch EXCEPT !.calls = @ + 1, !.ticked = @ \ {h}]
    /\ UNCHANGED <<now, max_retries, lk, probe, alerts, cache, issued, periodic_handle, task, ref, gt,
                   clearMark, shutdown_called, fw, ing>>

----------------------------------------------------------------------------
(* The bank's callback endpoint *)

\* response bodies: "B_OK" {"StatusCode":"00","StatusDesc":"OK"},
\* "B_99" {"StatusCode":"99","StatusDesc":"Internal Server Error"},
\* "B_TEXT" Upstream down, "B_UNAUTH" Unauthorized,
\* "B_OAUTH" {"ErrorCode":"403","ErrorDescription":"Failed Authentication OAuth2"}
NoAnswer == [status |-> 0, body |-> "none"]

PostAnswers ==
    { [status |-> 200, body |-> "B_OK"],   [status |-> 200, body |-> "B_99"],
      [status |-> 200, body |-> "B_TEXT"], [status |-> 500, body |-> "B_99"],
      [status |-> 401, body |-> "B_UNAUTH"],
      [status |-> 403, body |-> "B_OAUTH"], [status |-> 403, body |-> "B_TEXT"] }

\* StatusCode::is_success
IsSuccess(status) == 200 <= status /\ status <= 299

\* response.json::<PermataWebhookResponse>() succeeds
Decodes(b) == b \in {"B_OK", "B_99"}

\* PermataWebhookResponse.status_code
StatusCodeOf(b) == IF b = "B_OK" THEN "00" ELSE "99"

\* body.contains("403") && body.contains("Failed Authentication OAuth2")
IsOAuth2Failure(b) == b = "B_OAUTH"

----------------------------------------------------------------------------
(* PermataCallbackStatusClient::send_webhook_with_context *)

NoFwRes == [ok |-> FALSE, status_code |-> "none", err |-> NoErr]

\* a timestamp text "%Y-%m-%dT%H:%M:%S%.3f+07:00": the time t it reads
Timestamp(t) == [t |-> t]

NoTimestamp == [t |-> "none"]

\* let timestamp = &config.permata_timestamp: the configured text, which
\* reads one time, here that of the start (the line that formats
\* chrono::Utc::now() is commented out)
ConfigTimestamp == Timestamp(0)

\* compact_json: the parsed value written out again by serde_json
compact_json(b) == [compact |-> BodyJson(b)]

\* config.permata_bank_login.permata_static_key
StaticKey == "permata_static_key"

\* a signature that leaves the timestamp out of the message
generate_signature_no_timestamp(static_key, key, timestamp, data) ==
    [mac_key |-> static_key, message |-> key \o <<":">> \o data]

\* generate_signature: HMAC-SHA256 keyed with static_key over the text
\* "{key}:{timestamp}:{data}", in base64. A text is a sequence of pieces,
\* ":" being a piece like any other: the signature is a function of the
\* key and of the joined text, not of where key, timestamp and data meet
generate_signature(static_key, key, timestamp, data) ==
    [mac_key |-> static_key,
     message |-> key \o <<":">> \o timestamp \o <<":">> \o data]

NoSignature == [mac_key |-> "none", message |-> <<>>]

\* the POST to callbackstatus_url: body, the bearer token of Authorization,
\* the permata-timestamp and permata-signature headers
NoPost == [body |-> "none", auth |-> 0, ts |-> NoTimestamp, sig |-> NoSignature]

\* the request make_webhook_request_with_context builds for webhook_body
\* with access_token
PostRequest(webhook_body, access_token) ==
    [body |-> webhook_body, auth |-> access_token, ts |-> ConfigTimestamp,
     sig |-> generate_signature(StaticKey, <<access_token>>, <<ConfigTimestamp>>,
                                <<compact_json(webhook_body)>>)]

\* one send_webhook_with_context call; request_id (the id its caller gave
\* it), posts (POSTs sent), rounds (login
\* rounds run), relogins (403 re-logins begun), tok_failed (a get_token of the call failed), retried (the
\* error the latest further attempt followed), post (the latest POST),
\* cached (the token the cache held when that POST was built) and
\* answer (the bank's latest answer) record what the call did
FwIdle == [pc |-> "idle", body |-> "none", via |-> "none",
           request_id |-> NoRequestId, attempt |-> 0,
           retry_attempt |-> 0, token |-> 0, last_error |-> NoErr, res |-> NoFwRes,
           posts |-> 0, rounds |-> 0, relogins |-> 0, tok_failed |-> FALSE,
           retried |-> "none", post |-> NoPost, cached |-> 0,
           answer |-> NoAnswer]

\* compact_json: serde_json::from_str(json_str)?
Compacts(b) == BodyIsJson(b)

\* the text of the serde_json error of compact_json ends with the position,
\* "at line L column C": the substrings of Markers that occur in it
CompactErrMarks(b) == IF b = "P_BAD401" THEN {"401"} ELSE {}

\* a loop that clears the cache and tries again after every OAuth2 403
MayReloginTwice(retry_attempt) == retry_attempt < MaxReloginTries

\* for retry_attempt in 0..2 { .. if retry_attempt == 0 { clear; continue } }
MayRelogin(retry_attempt) == retry_attempt = 0 /\ retry_attempt + 1 < MaxReloginTries

\* what the match arm Err(e) of send_webhook_with_context does with e:
\* "return" the error, or "retry" after a sleep
AfterError(e, attempt, max) ==
    IF is_authentication_error(e) THEN "return"
    ELSE IF attempt < max THEN "retry" ELSE "return"

\* fw after an attempt that ended in error e
FwFailed(f, e) ==
    IF AfterError(e, f.attempt, max_retries) = "retry"
    THEN [f EXCEPT !.pc = "sleep", !.last_error = e]
    ELSE [f EXCEPT !.pc = "done", !.last_error = e,
                   !.res = [ok |-> FALSE, status_code |-> "none", err |-> e]]

\* the call begins: for attempt in 1..=max_retries; an empty range ends in
\* last_error.unwrap() on None
FwBegun(b, via) ==
    IF max_retries = 0
    THEN [FwIdle EXCEPT !.pc = "panicked", !.body = b, !.via = via]
    ELSE [FwIdle EXCEPT !.pc = "token", !.body = b, !.via = via, !.attempt = 1]

\* PermataCallbackStatusClient::send_webhook called by a client of the library
DirectSend(b) ==
    /\ fw.pc = "idle"
    /\ ing.pc = "idle"
    /\ fw' = [FwBegun(b, "direct") EXCEPT !.request_id = ReqId("direct")]
    /\ gt' = IF max_retries = 0 THEN gt
             ELSE [gt EXCEPT !["fwd"] = [GtIdle EXCEPT !.pc = "check"]]
    /\ UNCHANGED <<now, max_retries, lk, probe, sch, alerts, cache, issued, periodic_handle, task, ref,
                   clearMark, shutdown_called, ing>>

\* get_token_with_context returned to make_webhook_request_with_context:
\* `?` on its error; else compact_json, generate_signature and the POST
FwToken ==
    /\ fw.pc = "token"
    /\ gt["fwd"].pc \in {"ret", "panicked"}
    /\ LET g == gt["fwd"]
           f == [fw EXCEPT !.rounds = @ + (IF g.round THEN 1 ELSE 0)]
       IN fw' = IF g.pc = "panicked" THEN [f EXCEPT !.pc = "panicked"]
                ELSE IF ~g.res.ok
                THEN FwFailed([f EXCEPT !.tok_failed = TRUE], g.res.err)
                ELSE IF ~Compacts(f.body)
                THEN FwFailed([f EXCEPT !.token = g.res.token],
                              AppErr("Serialization", "compact",
                                     CompactErrMarks(f.body)))
                ELSE [f EXCEPT !.pc = "post_wait", !.token = g.res.token,
                               !.posts = @ + 1,
                               !.post = PostRequest(f.body, g.res.token),
                               !.cached = cache.token]
    /\ gt' = [gt EXCEPT !["fwd"] = GtIdle]
    /\ UNCHANGED <<now, max_retries, lk, probe, sch, alerts, cache, issued, periodic_handle, task, ref,
                   clearMark, shutdown_called, ing>>

\* .send().await? fails: connection refused, DNS, timeout, TLS
BankPostSendFail ==
    /\ fw.pc = "post_wait"
    /\ fw' = FwFailed(fw, AppErr("HttpRequest", "post_send", {}))
    /\ UNCHANGED <<now, max_retries, lk, probe, sch, alerts, cache, issued, periodic_handle, task, ref, gt,
                   clearMark, shutdown_called, ing>>

\* the bank answers 403 with the OAuth2 failure body on the first try:
\* clear_cache_with_context, then `continue` with a new get_token
BankPostRelogin(a) ==
    /\ fw.pc = "post_wait"
    /\ a.status = 403 /\ IsOAuth2Failure(a.body)
    /\ MayRelogin(fw.retry_attempt)
    /\ fw' = [fw EXCEPT !.pc = "token", !.retry_attempt = @ + 1, !.answer = a,
                        !.relogins = @ + 1]
    /\ gt' = [gt EXCEPT !["fwd"] = [GtIdle EXCEPT !.pc = "check"]]
    /\ cache' = CacheAfterClear(cache)
    /\ clearMark' = Cleared
    /\ periodic_handle' = HandleAfterClearCache(periodic_handle)
    /\ task' = TaskAfterClearCache(periodic_handle, task)
    /\ UNCHANGED <<now, max_retries, lk, probe, sch, alerts, issued, ref, shutdown_called, ing>>

\* every other answer of the bank ends the try
BankPostAnswer(a) ==
    /\ fw.pc = "post_wait"
    /\ ~(a.status = 403 /\ IsOAuth2Failure(a.body) /\ MayRelogin(fw.retry_attempt))
    /\ LET f == [fw EXCEPT !.answer = a]
       IN fw' =
           IF a.status = 403
           THEN IF IsOAuth2Failure(a.body)
                THEN FwFailed(f, AppErr("AuthenticationFailed", "post_oauth", {}))
                ELSE FwFailed(f, AppErr("MessageProcessing", "post_403",
                                        StatusMarks(a.status) \cup BodyMarks(a.body)))
           ELSE IF ~IsSuccess(a.status)
           THEN FwFailed(f, AppErr("MessageProcessing", "post_status",
                                   StatusMarks(a.status) \cup BodyMarks(a.body)))
           ELSE IF ~Decodes(a.body)
           THEN FwFailed(f, AppErr("HttpRequest", "post_json", {}))
           ELSE IF StatusCodeOf(a.body) # "00"
           THEN FwFailed(f, AppErr("MessageProcessing", "bank_code", BodyMarks(a.body)))
           ELSE [f EXCEPT !.pc = "done",
                          !.res = [ok |-> TRUE, status_code |-> StatusCodeOf(a.body),
                                   err |-> NoErr]]
    /\ UNCHANGED <<now, max_retries, lk, probe, sch, alerts, cache, issued, periodic_handle, task, ref, gt,
                   clearMark, shutdown_called, ing>>

\* sleep(retry_delay) is over: the next attempt begins with get_token
FwSleepDone ==
    /\ fw.pc = "sleep"
    /\ fw' = [fw EXCEPT !.pc = "token", !.attempt = @ + 1, !.retry_attempt = 0,
                        !.retried = fw.last_error.origin]
    /\ gt' = [gt EXCEPT !["fwd"] = [GtIdle EXCEPT !.pc = "check"]]
    /\ UNCHANGED <<now, max_retries, lk, probe, sch, alerts, cache, issued, periodic_handle, task, ref,
                   clearMark, shutdown_called, ing>>

\* the library client has its result (or its task panicked)
DirectReturn ==
    /\ fw.via = "direct"
    /\ fw.pc \in {"done", "panicked"}
    /\ fw' = FwIdle
    /\ UNCHANGED <<now, max_retries, lk, probe, sch, alerts, cache, issued, periodic_handle, task, ref, gt,
                   clearMark, shutdown_called, ing>>

----------------------------------------------------------------------------
(* WebhookProcessor::process_webhook and WebhookServer::process_webhook *)

NoBody == [k |-> "none", b |-> "none", e |-> NoErr]
NoHttp == [status |-> 0, body |-> NoBody]

\* r#"{"StatusCode":"00","StatusDesc":"Success"}"# with StatusCode::OK
Ack == [status |-> 200, body |-> [NoBody EXCEPT !.k = "ack"]]

\* one request in the ingress; alerts counts the alerts its handling sent
IngIdle == [pc |-> "idle", body |-> "none", resp |-> NoHttp, alerts |-> 0,
            request_id |-> NoRequestId]

\* WebhookProcessor::process_webhook: Ok(()) when the forward succeeded and
\* when it failed with an authentication error, which is logged and dropped;
\* Err(e) with every other error
ProcessorResult(res) ==
    IF res.ok THEN [ok |-> TRUE, err |-> NoErr]
    ELSE IF is_authentication_error(res.err) THEN [ok |-> TRUE, err |-> NoErr]
    ELSE [ok |-> FALSE, err |-> res.err]

\* StatusCode::from_u16
ValidStatus(n) == 100 <= n /\ n <= 999

BadGateway == 502
InternalServerError == 500

\* the fields http_status and body that the Ok arm of the handler reads from
\* the processor's value: process_webhook returns the unit value, which
\* carries neither, so that nothing the forward call did determines them: a
\* status that is an HTTP status, one that is not, and some body
WebhookResponses ==
    { [http_status |-> n, body |-> [NoBody EXCEPT !.k = "any"]] : n \in {0, 200} }

\* the match on processor.process_webhook(..) in WebhookServer::process_webhook:
\* Ok(webhook_response) answers with its http_status (502 if it is no HTTP
\* status) and its body, Err(e) answers 500 with the body 06 and the error
IngressResponse(p, w) ==
    IF p.ok
    THEN [status |-> IF ValidStatus(w.http_status) THEN w.http_status ELSE BadGateway,
          body |-> w.body]
    ELSE [status |-> InternalServerError,
          body |-> [NoBody EXCEPT !.k = "err06", !.e = p.err]]

\* a should_process_payload that sends no alert
NoParseAlerts(b) == 0

\* alerts should_process_payload sends for body b: one if serde_json::from_str
\* fails
ParseAlerts(b) == IF BodyIsJson(b) THEN 0 ELSE 1

\* POST {webhook_path}: classify; ignore with the ack, or hand to the processor
IngressPost(b) ==
    /\ ing.pc = "idle"
    /\ fw.pc = "idle"
    /\ alerts' = IF ParseAlerts(b) = 1 THEN AlertsAfterSend(alerts, "json_parse")
                 ELSE alerts
    /\ IF should_process_payload(b)
       THEN /\ ing' = [pc |-> "forwarding", body |-> b, resp |-> NoHttp,
                       alerts |-> ParseAlerts(b), request_id |-> IngressRequestId(b)]
            /\ fw' = [FwBegun(b, "ingress") EXCEPT !.request_id = IngressRequestId(b)]
            /\ gt' = IF max_retries = 0 THEN gt
                     ELSE [gt EXCEPT !["fwd"] = [GtIdle EXCEPT !.pc = "check"]]
       ELSE /\ ing' = [pc |-> "done", body |-> b, resp |-> Ack,
                       alerts |-> ParseAlerts(b), request_id |-> IngressRequestId(b)]
            /\ UNCHANGED <<fw, gt>>
    /\ UNCHANGED <<now, max_retries, lk, probe, sch, cache, issued, periodic_handle, task, ref,
                   clearMark, shutdown_called>>

\* the processor returned: the HTTP response is built (a panicked handler
\* task answers nothing)
IngressRespond ==
    /\ ing.pc = "forwarding"
    /\ fw.pc \in {"done", "panicked"}
    /\ \E w \in WebhookResponses :
          ing' = [ing EXCEPT !.pc = "done",
                    !.resp = IF fw.pc = "panicked"
                             THEN [NoHttp EXCEPT !.body = [NoBody EXCEPT !.k = "dropped"]]
                             ELSE IngressResponse(ProcessorResult(fw.res), w)]
    /\ UNCHANGED <<now, max_retries, lk, probe, sch, alerts, cache, issued, periodic_handle, task, ref, gt,
                   clearMark, shutdown_called, fw>>

\* the response is written and the handler ends
IngressClose ==
    /\ ing.pc = "done"
    /\ ing' = IngIdle
    /\ fw' = FwIdle
    /\ UNCHANGED <<now, max_retries, lk, probe, sch, alerts, cache, issued, periodic_handle, task, ref, gt,
                   clearMark, shutdown_called>>

----------------------------------------------------------------------------
(* Specifications *)

\* the state after PermataCallbackStatusClient::new: LoginHandler::new has
\* started the periodic task, whose first tick is due at once
InitButSch ==
    /\ now = 0
    /\ max_retries \in 0..MaxRetries
    /\ lk = LkIdle
    /\ probe = NoProbe
    /\ alerts = NoAlerts
    /\ cache = NoEntry
    /\ issued = 0
    /\ periodic_handle = "Some"
    /\ task = "alive"
    /\ ref = [pc |-> "tick_wait", next_tick |-> 0]
    /\ gt = [c \in Callers |-> GtIdle]
    /\ clearMark = NoMark
    /\ shutdown_called = FALSE
    /\ fw = FwIdle
    /\ ing = IngIdle

\* with a TokenScheduler::new of its own at hand
Init == InitButSch /\ sch = SchIdle

\* with a TokenScheduler::with_config of a configured interval, built with
\* or without overflow checks
InitInterval ==
    /\ InitButSch
    /\ max_retries = 1
    /\ \E i \in IntervalSamples, b \in Builds :
          sch = [SchIdle EXCEPT !.interval_mins = [c \in SchedClients |-> i],
                                !.build = b]

DirectBodies == NonJsonBodies

\* get_token_with_context as run by caller c
GetToken(c) ==
    \/ GtCheck(c)
    \/ \E e \in ExpiresInChoices : BankLoginOk(c, e)
    \/ \E f \in LoginFailures : BankLoginFail(c, f)
    \/ GtSleepDone(c)
    \/ GtStore(c)

Refresher == RefTick \/ RefClear \/ RefCallbackDone

\* the request path: one request at a time through the ingress or the client
\* library, with its own get_token calls; the periodic task is seen through
\* its handle, which the clear_cache of the forwarder takes and aborts
Next ==
    \/ \E b \in BodyIds : IngressPost(b)
    \/ IngressRespond
    \/ IngressClose
    \/ \E b \in DirectBodies : DirectSend(b)
    \/ DirectReturn
    \/ FwToken
    \/ BankPostSendFail
    \/ \E a \in PostAnswers : BankPostRelogin(a)
    \/ \E a \in PostAnswers : BankPostAnswer(a)
    \/ FwSleepDone
    \/ GetToken("fwd")
    \/ Advance

Spec == Init /\ [][Next]_vars

\* the token manager: a request-path caller of get_token, clear_cache and
\* shutdown, concurrent with the periodic refresher's own get_token
TokenReqs == {"req1"}

NextToken ==
    \/ \E c \in TokenReqs : GtCall(c)
    \/ \E c \in TokenReqs : GtReturn(c)
    \/ \E c \in TokenReqs \cup {"sched"} : GetToken(c)
    \/ Refresher
    \/ ClearCache
    \/ StopScheduler
    \/ Shutdown
    \/ Advance

SpecToken == Init /\ [][NextToken]_vars

\* the token cache under two concurrent request-path callers of get_token
\* and clear_cache
NextCallers ==
    \/ \E c \in Reqs : GtCall(c)
    \/ \E c \in Reqs : GtReturn(c)
    \/ \E c \in Reqs : GetToken(c)
    \/ ClearCache
    \/ Advance

SpecCallers == Init /\ [][NextCallers]_vars

\* bodies the ingress ignores
IgnoredBodies == {"P_BAD", "P_HELLO"}

\* the operations that send alerts, an ignored request and a get_token call,
\* with the alert tasks they spawn
NextAlert ==
    \/ \E b \in IgnoredBodies : IngressPost(b)
    \/ IngressClose
    \/ \E c \in TokenReqs : GtCall(c)
    \/ \E c \in TokenReqs : GtReturn(c)
    \/ \E c \in TokenReqs : GetToken(c)
    \/ \E k \in AlertKinds, o \in AlertOutcomes : AlertAnswer(k, o)

SpecAlert == Init /\ [][NextAlert]_vars

\* the periodic task of the LoginHandler with its callback, the clock, and
\* the stop of the scheduler by shutdown
NextRefresh ==
    \/ Refresher
    \/ GetToken("sched")
    \/ StopScheduler
    \/ Shutdown
    \/ Advance

SpecRefresh == Init /\ [][NextRefresh]_vars

\* the classifier applied to parsed payloads
NextClassify ==
    \/ \E json \in PayloadSamples : Classify(json)
    \/ ClassifyReturn

SpecClassify == Init /\ [][NextClassify]_vars

\* a body that is a delivery report and an inbound-flow reply at once, and
\* an ignored one
BothKindsBodies == {"P_BOTH", "P_HELLO"}

\* the ingress handling requests with such bodies, one at a time
NextBoth ==
    \/ \E b \in BothKindsBodies : IngressPost(b)
    \/ IngressRespond
    \/ IngressClose
    \/ FwToken
    \/ BankPostSendFail
    \/ \E a \in PostAnswers : BankPostRelogin(a)
    \/ \E a \in PostAnswers : BankPostAnswer(a)
    \/ FwSleepDone
    \/ GetToken("fwd")

SpecBoth == Init /\ [][NextBoth]_vars

\* a TokenScheduler and its clones under concurrent start_scheduler and
\* stop_scheduler calls
NextSched ==
    \/ \E c \in SchedClients : SchStop(c)
    \/ \E c \in SchedClients : SchStartStop(c)
    \/ \E c \in SchedClients : SchStartSpawn(c)
    \/ \E c \in SchedClients : SchStartStore(c)
    \/ \E c \in SchedClients : SchShutdown(c)
    \/ SchDrop
    \/ \E h \in TaskIds : SchTaskBegin(h)
    \/ \E h \in TaskIds : SchTaskTick(h)
    \/ \E h \in TaskIds : SchTaskCallback(h)

SpecSched == Init /\ [][NextSched]_vars

\* the token-cache and handle mutexes under a get_token caller, the periodic
\* tasks, clear_cache, and the scheduler's start, stop, shutdown and
\* is_scheduler_active
NextLocks ==
    \/ LkGtCall
    \/ \E t \in {"req"} \cup LockTasks : LkGtLock(t)
    \/ \E t \in {"req"} \cup LockTasks, hit \in BOOLEAN : LkGtLookup(t, hit)
    \/ \E t \in {"req"} \cup LockTasks, out \in {"ok", "err", "panic"} :
          LkGtLoginDone(t, out)
    \/ \E t \in {"req"} \cup LockTasks : LkGtLockInsert(t)
    \/ \E t \in {"req"} \cup LockTasks : LkGtInsert(t)
    \/ \E t \in LockTasks : LkTick(t)
    \/ \E t \in LockTasks : LkCbLock(t)
    \/ \E t \in LockTasks : LkCbClear(t)
    \/ \E t \in LockTasks : LkCancel(t)
    \/ LkCcCall
    \/ LkCcLock
    \/ LkCcClear
    \/ \E t \in {"cc", "ctl"} : LkStopLock(t)
    \/ \E t \in {"cc", "ctl"} : LkStopTake(t)
    \/ \E t \in {"cc", "ctl"} : LkStopReturn(t)
    \/ LkCcReturn
    \/ \E op \in CtlOps : LkCtlCall(op)
    \/ LkActiveLock
    \/ LkActiveRead
    \/ LkSpawn
    \/ LkStoreLock
    \/ LkStorePut

SpecLocks == Init /\ [][NextLocks]_vars

\* a body the forwarder signs and posts
ReloginBodies == {"P_HELLO"}

\* the 403 answers of the bank, with and without the OAuth2 failure body,
\* and the success answer
ReloginAnswers ==
    { a \in PostAnswers : a.status = 403 \/ (a.status = 200 /\ a.body = "B_OK") }

\* a forward call of the client library concurrent with a request-path
\* get_token call
NextRelogin ==
    \/ \E b \in ReloginBodies : DirectSend(b)
    \/ DirectReturn
    \/ FwToken
    \/ \E a \in ReloginAnswers : BankPostRelogin(a)
    \/ \E a \in ReloginAnswers : BankPostAnswer(a)
    \/ FwSleepDone
    \/ \E c \in TokenReqs : GtCall(c)
    \/ \E c \in TokenReqs : GtReturn(c)
    \/ \E c \in TokenReqs \cup {"fwd"} : GetToken(c)

SpecRelogin == Init /\ [][NextRelogin]_vars

\* a forward call of the client library concurrent with the periodic task,
\* which clears the cache and stores a new token at its tick, and with
\* clear_cache calls, at one reading of the clock
NextSigned ==
    \/ \E b \in ReloginBodies : DirectSend(b)
    \/ DirectReturn
    \/ FwToken
    \/ \E a \in ReloginAnswers : BankPostRelogin(a)
    \/ \E a \in ReloginAnswers : BankPostAnswer(a)
    \/ FwSleepDone
    \/ GetToken("fwd")
    \/ GetToken("sched")
    \/ Refresher
    \/ ClearCache

SpecSigned == Init /\ [][NextSigned]_vars

\* a TokenScheduler with a configured interval and its clone: their
\* start_scheduler, stop_scheduler, update_config and clone calls, and the
\* tasks they spawn up to the return of a tick
NextInterval ==
    \/ \E c \in SchedClients : SchStop(c)
    \/ \E c \in SchedClients : SchStartStop(c)
    \/ \E c \in SchedClients : SchStartSpawn(c)
    \/ \E c \in SchedClients : SchStartStore(c)
    \/ \E c \in SchedClients, i \in IntervalSamples : SchUpdateConfig(c, i)
    \/ \E a, b \in SchedClients : SchClone(a, b)
    \/ \E h \in TaskIds : SchTaskBegin(h)
    \/ \E h \in TaskIds : SchTaskTick(h)

SpecInterval == InitInterval /\ [][NextInterval]_vars

\* the steps of a forward call and of the bank: the code between two
\* suspension points, the answer or the failure of an outbound request, and
\* the end of a retry sleep
ForwardStep ==
    \/ FwToken
    \/ BankPostSendFail
    \/ \E a \in PostAnswers : BankPostRelogin(a)
    \/ \E a \in PostAnswers : BankPostAnswer(a)
    \/ FwSleepDone
    \/ GetToken("fwd")

\* forward calls of the client library, one at a time
NextForward ==
    \/ \E b \in ReloginBodies : DirectSend(b)
    \/ DirectReturn
    \/ ForwardStep

\* the runtime goes on polling the call, every outbound request is answered
\* or fails within the client timeout, and every sleep ends
SpecForwardFair == Init /\ [][NextForward]_vars /\ WF_vars(ForwardStep)

----------------------------------------------------------------------------
(* Claims *)

\* the step of caller c that ends its get_token_with_context call
Returns(c) == gt[c].pc # "ret" /\ gt'[c].pc = "ret"

\* C1: a token that get_token returns was either fetched by a login request
\* of that same call, or read from a cache entry whose expires_at was
\* strictly later than the clock at the time of the locked read; an entry
\* with expires_at <= now is never returned, whatever the request-path
\* callers, the refresher and clear_cache do in between.
C1_CachedTokenIsUnexpired ==
    [][\A c \in Callers :
        (Returns(c) /\ gt'[c].res.ok) =>
            \/ /\ gt[c].pc = "store"
               /\ gt[c].n_req >= 1
               /\ gt'[c].res.src = "login"
               /\ gt'[c].res.token = gt[c].resp.token
            \/ /\ gt[c].pc = "check"
               /\ gt'[c].res.src = "cache"
               /\ cache.token # 0
               /\ CmpLimbs(cache.expires_at, U64(now)) = 1
               /\ gt'[c].res.token = cache.token]_vars

\* a request-path call that sent no login request returned the token of an
\* unexpired cache entry while the refresher was logging in
C1_Witness ==
    /\ gt["req1"].pc = "ret"
    /\ gt["req1"].res.ok
    /\ gt["req1"].res.src = "cache"
    /\ gt["req1"].n_req = 0
    /\ gt["sched"].pc = "login_wait"

\* C2 (as stated): once the bank has answered a POST with a non-2xx status
\* the forward call is over with a successful result, it makes no further
\* attempt, and it has sent exactly one POST. The 403 answers, which have a
\* path of their own, are left aside.
C2_NonSuccessEndsCallWithOk ==
    (fw.answer # NoAnswer /\ ~IsSuccess(fw.answer.status) /\ fw.answer.status # 403) =>
        (fw.pc = "done" /\ fw.res.ok /\ fw.posts = 1)

\* C3 (as stated): the ingress answers a forwarded request the bank answered
\* with status S and body B with that status (502 if S is no HTTP status)
\* and that body.
C3_IngressRelaysBankAnswer ==
    (ing.pc = "done" /\ should_process_payload(ing.body) /\ fw.answer # NoAnswer) =>
        /\ ing.resp.status =
              (IF ValidStatus(fw.answer.status) THEN fw.answer.status ELSE BadGateway)
        /\ ing.resp.body = [NoBody EXCEPT !.k = "bank", !.b = fw.answer.body]

\* C4: a request whose body is valid JSON that is neither a delivery report
\* nor an inbound-flow reply is answered 200 with the acknowledgement body,
\* and its handling starts no forward call: no login request, no POST.
C4_IgnoredPayloadIsAcked ==
    (/\ ing.pc # "idle"
     /\ BodyIsJson(ing.body)
     /\ ~is_dr_payload(BodyJson(ing.body))
     /\ ~is_inbound_flow_payload(BodyJson(ing.body))) =>
        /\ ing.pc = "done"
        /\ ing.resp = Ack
        /\ fw = FwIdle
        /\ gt["fwd"] = GtIdle

\* an interactive message of another type than nfm_reply was acknowledged
C4_Witness ==
    /\ ing.pc = "done"
    /\ ing.body = "P_FLOWX"
    /\ ing.resp.status = 200
    /\ ing.resp.body.k = "ack"

\* C5 (as stated): a failed get_token ends the forward call with that error
\* and no further attempt, so that one forward call runs at most one login
\* round.
C5_TokenFailureEndsCall ==
    fw.tok_failed => (fw.pc = "done" /\ ~fw.res.ok /\ fw.rounds <= 1)

\* C6 (as stated): a forward attempt is followed by a further attempt only if
\* it failed with a transport or timeout error.
C6_RetryOnlyAfterTransportError ==
    fw.retried \in {"none", "post_send", "login_send"}

\* C7 (as stated): a forward call with max_retries = N sends at most N POSTs,
\* and with N = 1 exactly one when a token is obtained (and the body can be
\* compacted, without which no POST is sent).
C7_AtMostNPosts ==
    /\ fw.posts <= max_retries
    /\ (max_retries = 1 /\ fw.pc = "done" /\ fw.token # 0 /\ Compacts(fw.body)) =>
           fw.posts = 1

\* C8: with max_retries = N >= 1 a login round sends at most N login
\* requests; after every failed request but the N-th, whatever its error, it
\* sleeps once and sends another; it fails only after N requests and N - 1
\* sleeps, with the error of the last request.
C8_LoginRound ==
    \A c \in Callers :
        /\ gt[c].n_req <= max_retries
        /\ gt[c].pc \in {"login_wait", "store"} => gt[c].n_sleep = gt[c].n_req - 1
        /\ gt[c].pc = "sleep" =>
               (gt[c].n_req < max_retries /\ gt[c].n_sleep = gt[c].n_req)
        /\ (gt[c].pc = "ret" /\ gt[c].res.src = "login") =>
               gt[c].n_sleep = gt[c].n_req - 1
        /\ (gt[c].pc = "ret" /\ ~gt[c].res.ok) =>
               /\ gt[c].n_req = max_retries
               /\ gt[c].n_sleep = max_retries - 1
               /\ gt[c].last_out # NoErr
               /\ gt[c].res.err = gt[c].last_out

\* a round of two requests ended with the authentication failure of the second
C8_Witness ==
    /\ max_retries = 2
    /\ gt["req1"].pc = "ret"
    /\ ~gt["req1"].res.ok
    /\ gt["req1"].n_req = 2
    /\ gt["req1"].n_sleep = 1
    /\ gt["req1"].res.err.kind = "AuthenticationFailed"

\* the locked cache read of caller c
Reads(c) == gt[c].pc = "check" /\ gt'[c].pc # "check"

\* C9 (as stated): the first get_token call to read the cache after
\* clear_cache returned finds no token and runs a login round, also when
\* another get_token call was in flight and stored its token in between.
C9_NextCallLogsIn ==
    [][\A c \in Callers :
        (Reads(c) /\ clearMark.st \in {"cleared", "stored"}) =>
            (gt'[c].round /\ gt'[c].pc # "ret")]_vars

\* C9 (amended): after clear_cache returned the cache is empty until a
\* get_token call, of a request or of a refresher tick, that was in flight
\* stores its token; the first get_token call to read the cache after the
\* clear returns a token from the cache, without a login round, only if such
\* a token was stored in between and is unexpired at the read, and then it
\* is that token; in every other case (nothing stored, the stored entry
\* expired or cleared again) it runs a login round.
C9_NextCallLogsInUnlessStored ==
    [][/\ clearMark.st = "cleared" => cache = NoEntry
       /\ \A c \in Callers :
            (Reads(c) /\ clearMark.st \in {"cleared", "stored"}) =>
                IF clearMark.st = "stored" /\ cache.token # 0
                      /\ CmpLimbs(cache.expires_at, U64(now)) = 1
                THEN /\ gt'[c].pc = "ret"
                     /\ ~gt'[c].round
                     /\ gt'[c].res = OkRes(cache.token, "cache")
                ELSE /\ gt'[c].round
                     /\ gt'[c].pc # "ret"]_vars

\* the call that read the cleared cache has logged in and returned its token
C9_Witness ==
    \E c \in Reqs :
        /\ clearMark = [st |-> "relogin", by |-> c]
        /\ gt[c].pc = "ret"
        /\ gt[c].round
        /\ gt[c].res.src = "login"

\* C10 (as stated): the periodic task is stopped by shutdown only; until
\* shutdown is called its handle is held and the task is not aborted.
C10_RefresherStopsOnlyOnShutdown ==
    ~shutdown_called => (is_scheduler_active /\ task # "aborted")

\* C11 (as stated): once the start_scheduler and stop_scheduler calls made
\* on a TokenScheduler and its clones have returned, at most one periodic
\* task is alive and it is the task whose handle is stored.
C11_OneTaskAlive ==
    (\A c \in SchedClients : sch.op[c].pc = "idle") =>
        /\ Cardinality(sch.alive) <= 1
        /\ sch.alive \subseteq {sch.handle}

\* C12: after shutdown() returns the periodic refresher is stopped:
\* is_scheduler_active() is false and the task is not alive, and this stays
\* so whatever is called later (get_token never starts the scheduler again);
\* a further shutdown() changes nothing.
C12_ShutdownStopsForGood ==
    [][/\ shutdown_called' => (~is_scheduler_active' /\ task' # "alive")
       /\ (shutdown_called /\ Shutdown) => UNCHANGED vars]_vars

\* after shutdown a get_token call logged in and returned its token, and the
\* scheduler is still stopped
C12_Witness ==
    /\ shutdown_called
    /\ ~is_scheduler_active
    /\ task = "aborted"
    /\ gt["req1"].pc = "ret"
    /\ gt["req1"].res.src = "login"
    /\ cache.token = gt["req1"].res.token

\* C13 (as stated): when the forward call of a request failed with an error
\* classified as an authentication failure the ingress answers 401 with the
\* body {"error":"Authentication failed","message":<msg>} built from that
\* error; when it failed with any other error the ingress answers 500 with
\* the body {"StatusCode":"06","StatusDesc":<err>}.
C13_ErrorResponses ==
    (ing.pc = "done" /\ should_process_payload(ing.body) /\ fw.pc = "done" /\ ~fw.res.ok) =>
        IF is_authentication_error(fw.res.err)
        THEN /\ ing.resp.status = 401
             /\ ing.resp.body = [k |-> "auth", b |-> "none", e |-> fw.res.err]
        ELSE /\ ing.resp.status = InternalServerError
             /\ ing.resp.body = [k |-> "err06", b |-> "none", e |-> fw.res.err]

\* C14: a request whose body is not valid JSON is answered 200 with the
\* acknowledgement body, its handling sends exactly one alert, and it starts
\* no forward call.
C14_InvalidJsonAckedWithAlert ==
    (ing.pc # "idle" /\ ~BodyIsJson(ing.body)) =>
        /\ ing.pc = "done"
        /\ ing.resp = Ack
        /\ ing.alerts = 1
        /\ alerts["json_parse"] # "none"
        /\ fw = FwIdle
        /\ gt["fwd"] = GtIdle

\* a body that is not JSON was acknowledged and its alert task is running
C14_Witness ==
    /\ ing.pc = "done"
    /\ ing.body = "P_BAD"
    /\ ing.resp.status = 200
    /\ ing.resp.body.k = "ack"
    /\ ing.alerts = 1
    /\ alerts["json_parse"] = "pending"

\* the bodies of PostAnswers that are JSON texts
BankBodyIsJson(b) == b \in {"B_OK", "B_99", "B_OAUTH"}

\* C15 (as stated), for a body B of the bank's answer that is not valid
\* JSON: the ingress answers with the bank's status and the body
\* {"StatusCode":"06","StatusDesc":B}. (For a B that is valid JSON the claim
\* is the relay of C3.)
C15_NonJsonBankBodyWrapped ==
    (/\ ing.pc = "done"
     /\ should_process_payload(ing.body)
     /\ fw.answer # NoAnswer
     /\ ~BankBodyIsJson(fw.answer.body)) =>
        /\ ing.resp.status = fw.answer.status
        /\ ing.resp.body = [k |-> "wrap06", b |-> fw.answer.body, e |-> NoErr]

\* C16 (as stated): the request id under which the ingress handles a POST and
\* which it passes to the forwarder is extract_request_id(body): "req-" and
\* the body's xid, else its id, else a fresh UUID.
C16_RequestIdFromBody ==
    (ing.pc # "idle") =>
        /\ ing.request_id = extract_request_id(BodyIsJson(ing.body), BodyJson(ing.body))
        /\ fw.pc # "idle" => fw.request_id = ing.request_id

\* C17: every POST to the bank carries the body the forwarder was given,
\* unchanged, and its permata-signature is the signature, under the static
\* key, of the text made of the bearer token of its own Authorization
\* header, ":", its own permata-timestamp, ":" and the compacted body,
\* whatever happens to the token cache meanwhile.
C17_PostSignedOverItsOwnHeaders ==
    (fw.posts >= 1) =>
        /\ fw.post.body = fw.body
        /\ fw.post.auth = fw.token /\ fw.post.auth >= 1
        /\ fw.post.sig = [mac_key |-> StaticKey,
                          message |-> <<fw.post.auth, ":", fw.post.ts, ":",
                                        [compact |-> BodyJson(fw.body)]>>]

\* a POST is in flight that was built while the cache held another token
\* than the one the forwarder had got: the periodic task had cleared the
\* cache and stored the token of its own login in between; the POST carries
\* the forwarder's token and is signed over it
C17_Witness ==
    /\ fw.pc = "post_wait"
    /\ fw.post.auth >= 1
    /\ fw.cached \notin {0, fw.post.auth}
    /\ fw.post.sig.message =
           <<fw.post.auth, ":", fw.post.ts, ":", [compact |-> BodyJson(fw.body)]>>

\* C18 (as stated): each POST takes its permata-timestamp from the clock at
\* the time it is built, and signs that timestamp, so that POSTs built at
\* different times carry different timestamps and signatures.
C18_FreshTimestampPerAttempt ==
    [][(fw'.posts = fw.posts + 1) =>
            /\ fw'.post.ts = Timestamp(now)
            /\ fw'.post.sig.message =
                   <<fw'.post.auth, ":", Timestamp(now), ":",
                     [compact |-> BodyJson(fw'.body)]>>]_vars

\* C19 (as stated): a token answered with expires_in <= 300 is stored with
\* expires_at equal to the time of storing (the subtraction of the margin
\* saturates at zero), one answered with expires_in > 300, whatever its
\* value, is stored to expire expires_in - 300 seconds after the storing; the
\* clock never goes back, and a get_token that finds an entry with
\* expires_at <= now does not return it but logs in.
C19_ExpiryAfterMargin ==
    [][/\ now' >= now
       /\ \A c \in Callers :
            /\ (gt[c].pc = "store" /\ gt'[c].pc # "store") =>
                 /\ gt'[c].pc = "ret"
                 /\ cache'.token = gt[c].resp.token
                 /\ CmpLimbs(gt[c].resp.expires_in, U64(SafetyMargin)) <= 0 =>
                        cache'.expires_at = U64(now)
                 /\ CmpLimbs(gt[c].resp.expires_in, U64(SafetyMargin)) = 1 =>
                        cache'.expires_at =
                            AddLimbs(SubLimbs(gt[c].resp.expires_in,
                                              U64(SafetyMargin)),
                                     U64(now)).limbs
            /\ (gt[c].pc = "check" /\ gt'[c].pc # "check"
                    /\ cache.token # 0
                    /\ CmpLimbs(cache.expires_at, U64(now)) <= 0) =>
                 /\ gt'[c].round
                 /\ gt'[c].res.src # "cache"
                 /\ max_retries >= 1 => (gt'[c].pc = "login_wait" /\ gt'[c].n_req = 1)]_vars

\* C20: send_error_alert returns without waiting for the alert POST: the
\* step that raises an alert ends with the POST still unanswered, and gives
\* the operation its result (the ack of the ignored request, the login
\* error of the get_token call) in that same step; the answer of the alert
\* POST, whether 2xx, non-2xx or a transport failure, comes in a step that
\* changes nothing else, and so does its absence.
C20_AlertNeverAwaited ==
    [][/\ \A k \in AlertKinds :
            alerts'[k] # alerts[k] =>
                \/ alerts'[k] = "pending"
                \/ /\ alerts[k] = "pending"
                   /\ UNCHANGED <<now, max_retries, lk, probe, sch, cache, issued, periodic_handle,
                                  task, ref, gt, clearMark, shutdown_called, fw, ing>>
       /\ (ing.pc = "idle" /\ ing'.pc # "idle" /\ ~BodyIsJson(ing'.body)) =>
            /\ alerts'["json_parse"] = "pending"
            /\ ing'.pc = "done" /\ ing'.resp = Ack
       /\ \A c \in Callers :
            (gt[c].pc = "login_wait" /\ gt'[c].pc # "login_wait"
                 /\ gt'[c].last_out.origin = "login_status") =>
                /\ alerts'["login_status"] = "pending"
                /\ gt'[c].pc \in {"sleep", "ret"}
                /\ gt'[c].pc = "ret" => gt'[c].res = ErrRes(gt'[c].last_out)]_vars

\* a get_token call has failed with the login error while its alert POST
\* failed in transport, and an ignored request has its ack while its alert
\* POST is still unanswered
C20_Witness ==
    /\ gt["req1"].pc = "ret"
    /\ gt["req1"].res =
           ErrRes(LoginErr([kind |-> "status", status |-> 401, body |-> "B_UNAUTH"]))
    /\ alerts["login_status"] = "failed"
    /\ ing.pc = "done" /\ ing.body = "P_BAD" /\ ing.resp = Ack
    /\ alerts["json_parse"] = "pending"

\* C21 (as stated): every login request that fails, on an error status or in
\* transport, dispatches an alert: the step that ends the failed request
\* leaves the alert POST of make_login_request_with_context dispatched.
C21_AlertPerFailedLogin ==
    [][\A c \in Callers :
        (gt[c].pc = "login_wait" /\ gt'[c].pc \in {"sleep", "ret"}) =>
            alerts'["login_status"] = "pending"]_vars

\* C22 (as stated): a forward attempt that ends in a transport error or in a
\* non-2xx answer dispatches an alert: the step that ends the attempt leaves
\* an alert POST dispatched.
C22_AlertPerFailedForward ==
    [][(fw.pc = "post_wait" /\ fw'.pc \in {"sleep", "done"}
            /\ fw'.last_error.origin \in {"post_send", "post_status"}) =>
        \E k \in AlertKinds : alerts'[k] = "pending"]_vars

\* C23: a request whose payload is both a delivery report and an
\* inbound-flow reply is handed to the forwarder, and its handling makes one
\* forward call: the call begins in the step that takes the request, no
\* other call begins while the request is handled, and the call is dropped
\* only when the handler ends.
C23_BothKindsForwardedOnce ==
    [][/\ (ing.pc = "idle" /\ ing'.pc # "idle"
              /\ is_dr_payload(BodyJson(ing'.body))
              /\ is_inbound_flow_payload(BodyJson(ing'.body))) =>
            /\ ing'.pc = "forwarding"
            /\ fw.pc = "idle" /\ fw'.pc # "idle"
            /\ fw'.body = ing'.body /\ fw'.via = "ingress"
       /\ (ing.pc # "idle" /\ ing.body = "P_BOTH") =>
            /\ fw.pc # "idle"
            /\ fw'.pc = "idle" => ing'.pc = "idle"
            /\ fw'.pc # "idle" => (fw'.body = "P_BOTH" /\ fw'.via = "ingress")]_vars

\* the request with the payload of both kinds was forwarded with one POST,
\* which the bank answered with success, and the handler has answered
C23_Witness ==
    /\ ing.pc = "done" /\ ing.body = "P_BOTH"
    /\ is_dr_payload(BodyJson("P_BOTH")) /\ is_inbound_flow_payload(BodyJson("P_BOTH"))
    /\ fw.pc = "done" /\ fw.res.ok /\ fw.posts = 1
    /\ fw.answer.status = 200

\* the payload has a top-level field error, whatever its value
HasTopLevelError(v) == v.t = "obj" /\ "error" \in DOMAIN v.o

\* entry is an array with an element whose changes is an array with an
\* element whose value has a field statuses, whatever its value
ReachesStatuses(v) ==
    /\ v.t = "obj" /\ "entry" \in DOMAIN v.o /\ v.o["entry"].t = "arr"
    /\ \E i \in 1..Len(v.o["entry"].a) :
          LET e == v.o["entry"].a[i]
          IN /\ e.t = "obj" /\ "changes" \in DOMAIN e.o /\ e.o["changes"].t = "arr"
             /\ \E j \in 1..Len(e.o["changes"].a) :
                   LET c == e.o["changes"].a[j]
                   IN /\ c.t = "obj" /\ "value" \in DOMAIN c.o
                      /\ c.o["value"].t = "obj"
                      /\ "statuses" \in DOMAIN c.o["value"].o

\* C24: is_dr_payload(v) is true exactly when v has a top-level field error,
\* null included, or entry[*].changes[*].value.statuses reaches a node, a
\* null one included; a missing field or a value that is not an array where
\* [*] stands gives no match.
C24_IsDrExactly ==
    (probe.pc = "done") =>
        (probe.dr <=> (HasTopLevelError(probe.json) \/ ReachesStatuses(probe.json)))

\* a payload without error whose statuses is null was classified a delivery
\* report
C24_Witness ==
    /\ probe.pc = "done"
    /\ probe.dr
    /\ ~HasTopLevelError(probe.json)
    /\ navigate_json_path(probe.json,
          <<"entry", "[*]", "changes", "[*]", "value", "statuses">>) = <<JNull>>

\* data.entry[*].changes[*].value.messages[*].interactive.type reaches the
\* string "nfm_reply"
ReachesFlowReply(v) ==
    /\ v.t = "obj" /\ "data" \in DOMAIN v.o
    /\ LET d == v.o["data"]
       IN /\ d.t = "obj" /\ "entry" \in DOMAIN d.o /\ d.o["entry"].t = "arr"
          /\ \E i \in 1..Len(d.o["entry"].a) :
              LET e == d.o["entry"].a[i]
              IN /\ e.t = "obj" /\ "changes" \in DOMAIN e.o /\ e.o["changes"].t = "arr"
                 /\ \E j \in 1..Len(e.o["changes"].a) :
                     LET c == e.o["changes"].a[j]
                     IN /\ c.t = "obj" /\ "value" \in DOMAIN c.o
                        /\ c.o["value"].t = "obj"
                        /\ "messages" \in DOMAIN c.o["value"].o
                        /\ c.o["value"].o["messages"].t = "arr"
                        /\ \E k \in 1..Len(c.o["value"].o["messages"].a) :
                            LET m == c.o["value"].o["messages"].a[k]
                            IN /\ m.t = "obj" /\ "interactive" \in DOMAIN m.o
                               /\ m.o["interactive"].t = "obj"
                               /\ "type" \in DOMAIN m.o["interactive"].o
                               /\ m.o["interactive"].o["type"] = JStr("nfm_reply")

\* C25: is_inbound_flow_payload(v) is true exactly when a node reached by
\* data.entry[*].changes[*].value.messages[*].interactive.type is the string
\* "nfm_reply"; another string, a value that is not a string, or a missing
\* step of the path gives false.
C25_IsInboundFlowExactly ==
    (probe.pc = "done") => (probe.flow <=> ReachesFlowReply(probe.json))

\* a payload whose interactive type is another string was not classified an
\* inbound-flow reply
C25_Witness ==
    /\ probe.pc = "done"
    /\ ~probe.flow
    /\ json_path_equals(probe.json,
          <<"data", "entry", "[*]", "changes", "[*]", "value", "messages", "[*]",
            "interactive", "type">>, "button_reply")

\* C27 (as stated): once a TokenScheduler that was started, and neither
\* stopped nor shut down since, is dropped with its clones, its tasks invoke
\* the refresh callback no more.
C27_NoCallbackAfterDrop ==
    [][(sch.dropped /\ sch.last = "start") => sch'.calls = sch.calls]_vars

\* C29: while no start_scheduler or stop_scheduler call is in progress,
\* get_scheduler_info() is Some exactly when is_scheduler_active() is true,
\* which it is exactly when the call that returned last, among
\* start_scheduler, stop_scheduler and shutdown, was start_scheduler; a new
\* TokenScheduler is inactive.
C29_ActiveIffLastCallWasStart ==
    (\A c \in SchedClients : sch.op[c].pc = "idle") =>
        /\ \A c \in SchedClients : get_scheduler_info(sch, c).some <=> SchActive(sch)
        /\ SchActive(sch) <=> sch.last = "start"
        /\ sch.last = "none" => ~SchActive(sch)

\* two start_scheduler calls overlapped, the one that spawned its task first
\* stored its handle last, and the scheduler is active
C29_Witness ==
    /\ \A c \in SchedClients : sch.op[c].pc = "idle"
    /\ sch.last = "start" /\ SchActive(sch)
    /\ \A c \in SchedClients :
          get_scheduler_info(sch, c) = [some |-> TRUE, interval_mins |-> U64(IntervalMins)]
    /\ sch.spawned = 2 /\ sch.handle = 1

\* C26 (as stated): from its start on and for as long as the scheduler is
\* not stopped, the periodic task is there to invoke the callback: it is
\* alive, waiting for a tick or running the callback, and a tick whose time
\* has come, the first one at the start with no time elapsed, fires.
C26_CallbackEveryIntervalWhileActive ==
    is_scheduler_active =>
        /\ task = "alive"
        /\ ref.pc \in {"tick_wait", "clear", "token"}
        /\ (ref.pc = "tick_wait" /\ now >= ref.next_tick) => ENABLED RefTick

\* C28 (as stated): after stop_scheduler() has returned, no invocation of
\* the refresh callback begins.
C28_NoCallbackAfterStop ==
    [][(ref.pc = "clear" /\ ref'.pc = "token") => is_scheduler_active]_vars

\* C30: a callback that returns an error does not end the periodic task: the
\* task stays as it was and waits for its next tick, which is due when it
\* was due before, and the tick fires when its time has come.
C30_CallbackErrorKeepsTask ==
    [][/\ (ref.pc = "token" /\ ref'.pc # "token"
              /\ gt["sched"].pc = "ret" /\ ~gt["sched"].res.ok) =>
            /\ task' = task
            /\ ref'.pc = "tick_wait"
            /\ ref'.next_tick = ref.next_tick
       /\ (task = "alive" /\ ref.pc = "tick_wait" /\ now >= ref.next_tick) =>
            ENABLED RefTick]_vars

\* no token was ever issued and a login of the callback was answered with an
\* error status, so the callback returned an error; the task is alive and
\* its next tick has invoked the callback again
C30_Witness ==
    /\ issued = 0 /\ max_retries >= 1
    /\ alerts["login_status"] = "pending"
    /\ task = "alive"
    /\ ref.pc = "clear" /\ gt["sched"].pc = "idle"
    /\ now = Period /\ ref.next_tick = 2 * Period

C32_MissedTicksAllSkipped ==
    [][(ref.pc = "token" /\ ref'.pc = "tick_wait") => now' < ref'.next_tick]_vars

\* C32 (amended): at most one refresh is outstanding, a callback starting
\* only from a tick that fired after the previous callback returned; ticks are
\* not queued while a callback runs: the return of the callback leaves the
\* pending tick as it was, that tick fires once (at once if it fell due
\* meanwhile), and the tick after it is due later than the time of firing.
C32_OneRefreshOutstanding ==
    [][/\ (ref.pc # "clear" /\ ref'.pc = "clear") =>
            /\ ref.pc = "tick_wait" /\ gt["sched"].pc = "idle"
            /\ now >= ref.next_tick
            /\ ref'.next_tick > now
       /\ (gt["sched"].pc # "check" /\ gt'["sched"].pc = "check") =>
            (gt["sched"].pc = "idle" /\ ref.pc = "clear" /\ ref'.pc = "token")
       /\ (ref.pc = "token" /\ ref'.pc # "token") =>
            /\ gt["sched"].pc \in {"ret", "panicked"}
            /\ gt'["sched"].pc = "idle"
            /\ ref'.next_tick = ref.next_tick]_vars

\* the callback of the tick fired at time 0 stored its token one period
\* later; the tick that fell due meanwhile fired when it returned, and the
\* next one is due a period later
C32_Witness ==
    /\ ref = [pc |-> "clear", next_tick |-> 2 * Period]
    /\ now = Period
    /\ cache = [token |-> 1, expires_at |-> U64(Period + SecsPerMin)]
    /\ gt["sched"].pc = "idle"

\* C33: a get_token call whose login round fails does not write the token
\* cache: no step of the call from its cache lookup to the return of the
\* error changes the cache, and the call that returns an error has not
\* passed through the insert; a cache found empty is empty when the error
\* is returned unless another task wrote it.
C33_FailedLoginLeavesCache ==
    [][\A c \in Callers :
        /\ (gt[c].pc \in {"check", "login_wait", "sleep"} /\ gt'[c] # gt[c]) =>
                cache' = cache
        /\ (Returns(c) /\ ~gt'[c].res.ok) =>
                /\ gt[c].pc = "login_wait"
                /\ gt'[c].res.err = gt'[c].last_error
                /\ cache' = cache]_vars

\* a call found the cache empty, every login request of its round failed,
\* and it returned the error with the cache still empty
C33_Witness ==
    /\ max_retries = MaxRetries
    /\ gt["req1"].pc = "ret"
    /\ ~gt["req1"].res.ok
    /\ gt["req1"].n_req = max_retries
    /\ issued = 0
    /\ cache = NoEntry

\* the critical sections of each mutex: the lookup, the insert and the two
\* clears of the cache (clear_cache keeps the cache locked until it returns);
\* the take, the read and the replace of the handle
SectionPcs(m) ==
    IF m = "cache"
    THEN {"gt_lookup", "gt_insert", "cb_clear", "cc_clear", "stop_want", "stop_take",
          "stop_ret", "cc_ret"}
    ELSE {"stop_take", "stop_ret", "act_read", "store_put"}

\* C34: no task holds the token-cache mutex or the scheduler-handle mutex
\* while it waits on a network call, a retry sleep or a timer tick: a thread
\* at a suspension point, or outside any call, holds no mutex, and the holder
\* of a mutex is inside a read-and-copy, an insert, a clear, or a take or
\* replace of the handle.
C34_NoLockAcrossAwait ==
    \A m \in Mutexes :
        /\ \A t \in LockThreads :
              lk.pc[t] \in AwaitPcs \cup RestPcs => lk.holder[m] # t
        /\ lk.holder[m] # "none" => lk.pc[lk.holder[m]] \in SectionPcs(m)

\* the periodic task awaits its login while the request-path caller holds
\* the cache mutex for its insert
C34_Witness ==
    /\ lk.pc["task1"] = "gt_login"
    /\ lk.holder["cache"] = "req"
    /\ lk.pc["req"] = "gt_insert"

\* thread t waits for a mutex that is held
Blocked(t) ==
    /\ WantedAt(lk.pc[t]) # "none"
    /\ lk.holder[WantedAt(lk.pc[t])] # "none"

\* the thread that holds the mutex t waits for
WaitsFor(t) == lk.holder[WantedAt(lk.pc[t])]

\* C35: no deadlock is reachable: whenever a thread waits for a held mutex,
\* following the holders from it leads, within as many steps as there are
\* mutexes, to a thread that is not waiting for a held mutex and so runs on
\* to release; no thread waits for a mutex it holds itself.
C35_NoDeadlock ==
    \A t \in LockThreads :
        Blocked(t) =>
            /\ WaitsFor(t) # t
            /\ Blocked(WaitsFor(t)) =>
                  /\ WaitsFor(WaitsFor(t)) \notin {t, WaitsFor(t)}
                  /\ ~Blocked(WaitsFor(WaitsFor(t)))

\* clear_cache holds the cache and waits for the handle, which a
\* stop_scheduler call holds, while a periodic task waits for the cache
C35_Witness ==
    /\ lk.holder = [cache |-> "cc", handle |-> "ctl"]
    /\ lk.pc["cc"] = "stop_want"
    /\ lk.pc["ctl"] = "stop_take"
    /\ lk.pc["task1"] = "cb_want"
    /\ lk.pc["req"] = "ins_want"

\* C36 (as stated): the cache never goes back to an older token: tokens
\* being numbered in the order in which the bank answered the logins, a
\* store never replaces the cached token by one of a login answered earlier.
C36_CacheNeverGoesBack ==
    [][(cache.token # 0 /\ cache'.token # 0) => cache'.token >= cache.token]_vars

\* the step in which a try of make_webhook_request_with_context gets a 403
\* answer: the cache is cleared for a further try, or the try ends in the
\* error of a 403
Answered403 ==
    /\ fw.pc = "post_wait" /\ fw'.pc # "post_wait"
    /\ fw'.answer.status = 403
    /\ \/ fw'.relogins = fw.relogins + 1
       \/ fw'.last_error.origin \in {"post_oauth", "post_403"}

\* the step in which the try made after a 403 re-login sends its POST
RetryPosts == fw.pc = "token" /\ fw.retry_attempt = 1 /\ fw'.pc = "post_wait"

\* C37 (as stated): the try that follows an OAuth2 403 on the first try uses
\* a token obtained by a login made after the clear, also when other
\* get_token calls run at the same time.
C37_RetryTokenFromNewLogin ==
    [][RetryPosts => (gt["fwd"].round /\ gt["fwd"].res.src = "login")]_vars

\* C37 (amended): in make_webhook_request_with_context an OAuth2 403 on the
\* first try clears the token cache and is followed by one further try in
\* the same attempt, which calls get_token anew and posts with the token it
\* returns, never the rejected one (the bank issuing a new token at every
\* login): the token of a login made after the clear, or one a concurrent
\* get_token call stored after the clear; an
\* OAuth2 403 on that further try returns AuthenticationFailed and ends the
\* forward call; any other 403 returns an error with no further try and
\* without clearing the cache.
C37_OneReloginAfterOAuth403 ==
    [][/\ (Answered403 /\ IsOAuth2Failure(fw'.answer.body) /\ fw.retry_attempt = 0) =>
            /\ cache' = NoEntry
            /\ fw'.pc = "token" /\ fw'.retry_attempt = 1 /\ fw'.attempt = fw.attempt
            /\ fw'.posts = fw.posts
            /\ gt'["fwd"].pc = "check"
       /\ (Answered403 /\ IsOAuth2Failure(fw'.answer.body) /\ fw.retry_attempt # 0) =>
            /\ fw'.pc = "done"
            /\ fw'.res.err.kind = "AuthenticationFailed"
            /\ cache' = cache
       /\ (Answered403 /\ ~IsOAuth2Failure(fw'.answer.body)) =>
            /\ fw'.pc \in {"sleep", "done"}
            /\ fw'.last_error.kind = "MessageProcessing"
            /\ cache' = cache
       /\ RetryPosts =>
            /\ fw'.post.auth = gt["fwd"].res.token
            /\ fw'.post.auth # fw.token
            /\ fw'.posts = fw.posts + 1
       /\ fw.retry_attempt <= 1]_vars

\* the first try posted with token 1 and was answered by the OAuth2 403; the
\* further try logged in again, posted with token 2, got the same answer,
\* and the call ended in AuthenticationFailed after two POSTs
C37_Witness ==
    /\ fw.pc = "done"
    /\ fw.attempt = 1
    /\ fw.retry_attempt = 1
    /\ fw.posts = 2
    /\ fw.rounds = 2
    /\ fw.post.auth = 2
    /\ fw.answer = [status |-> 403, body |-> "B_OAUTH"]
    /\ fw.res.err.kind = "AuthenticationFailed"
    /\ cache.token = 2

\* C38 (as stated): login_with_context and send_webhook_with_context return
\* Ok or Err for every value of max_retries, 0 included: no get_token call
\* and no forward call ends in the panic of last_error.unwrap() on None.
C38_NoUnwrapOnNone ==
    /\ fw.pc # "panicked"
    /\ \A c \in Callers : gt[c].pc # "panicked"

\* C39 (as stated): whenever is_scheduler_active() is true the periodic
\* task whose handle is stored is alive, for every configured
\* periodic_interval_mins, 0 and values whose product with 60 overflows 64
\* bits included.
C39_ActiveMeansAlive ==
    SchActive(sch) => sch.handle \in sch.alive

\* C40 (as stated): every forward call terminates: each outbound HTTP call
\* returning or timing out, a send_webhook_with_context call that has begun
\* its first attempt returns, whatever the bank answers; it makes at most N
\* attempts with at most two tries each (N = max_retries), so at most 2N
\* callback POSTs and 2N login rounds of at most N login requests each.
C40_ForwardTerminates ==
    /\ [](/\ fw.attempt <= max_retries
          /\ fw.retry_attempt <= 1
          /\ fw.posts <= 2 * max_retries
          /\ fw.rounds <= 2 * max_retries
          /\ gt["fwd"].n_req <= max_retries)
    /\ (fw.pc \in {"token", "post_wait", "sleep"}) ~> (fw.pc = "done")

====
